---- MODULE Spec2Model ----
(***************************************************************************)
(* Model of the AI trading extension: the RiskManager's risk evaluation    *)
(* (risk-manager.js), its configuration validation, and the background     *)
(* service worker that drives it (alarms, popup messages).                 *)
(*                                                                         *)
(* Units.  Fractions of the portfolio (maxPositionSize, exposures, Kelly   *)
(* fractions, asset returns) are integers in percent: 0.02 is 2, 1.0 is    *)
(* 100.  Confidences and the asset volatility are in tenths: 0.7 is 7.     *)
(* Market volatility and liquidity are in percent.  Money is in units of   *)
(* 10 dollars: the 1000 dollar floor of getTotalAccountValue is 100.       *)
(* A position size is an exact rational [n, d] with d > 0, so that the     *)
(* products and quotients of calculatePositionSize lose nothing.           *)
(***************************************************************************)
EXTENDS Integers, Sequences, FiniteSets, TLC

VARIABLES
    \* chrome.storage.local
    tradingConfig,      \* the value under 'tradingConfig' (NoConfig: nothing stored)
    \* one evaluateOpportunity call
    pc,                 \* position of the call: "idle", a gate, or "done"
    analysis,           \* argument: the analysis under evaluation
    symbol,             \* argument: the symbol under evaluation
    trail,              \* the gates this call has evaluated, in order
    obs,                \* what each evaluated gate observed
    riskAssessment,     \* the assessment the call returned
    threw,              \* the call's exception escaped evaluateOpportunity
    \* one validateConfig call
    vConfig,            \* argument: the configuration to validate
    vResult,            \* what the call did: nothing yet, returned true, or threw
    \* the background service worker (AITradingService)
    isActive,           \* this.isActive
    managerConfig,      \* the ConfigManager's configuration, as far as the worker reads it
    activePositions,    \* this.activePositions: the order ids tracked as open
    orders,             \* number of orders executeTrade has submitted so far
    tasks,              \* per trading-check alarm: its handleAlarm invocation in flight
    msg,                \* the popup message being handled, and its response
    \* one call of a method on given arguments and collaborator answers
    fn,                 \* the method called
    args,               \* its arguments and what its collaborators answer
    ret,                \* what it returned (Pending: it has not returned yet)
    \* a ConfigManager, the Loggers and the storage they write
    localStorage,       \* chrome.storage.local: 'tradingConfig' as saveConfig writes it,
                        \* 'encryptedSecrets' and 'tradingLogs'
    thisConfig,         \* the ConfigManager's this.config
    saveCall,           \* the saveConfig call in flight: its position, argument, result
    saves,              \* number of saveConfig calls made
    logs,               \* per Logger (by context): this.logs
    consoleOut,         \* what the Loggers wrote to the console
    storing,            \* the storeLog calls in flight
    logCalls,           \* number of entries logged
    \* one platform adapter and its RateLimiter
    adapter,            \* the adapter's class: "coinbase" or "binance"
    clock,              \* Date.now(), in steps of 500 ms
    requests,           \* rateLimiter.requests: per time, how many entries carry it
    sleeping,           \* per wake-up time, the wait() calls sleeping until then
    sent,               \* per time, the HTTP requests fetch() has sent at it
    calls,              \* number of makeRequest calls made
    \* the popup and the worker's ConfigManager
    popup,              \* TradingPopup: whether it is open, and its this.config
    configManager,      \* ConfigManager: isLoaded and this.config
    \* one BaseAdapter.retry call
    retry,              \* its arguments, position, attempt, invocations and waits
    \* the MachineLearning object
    ml                  \* isInitialized, the predictions cache, the last predict call

evalVars == <<tradingConfig, pc, analysis, symbol, trail, obs, riskAssessment, threw>>
valVars == <<vConfig, vResult>>
workerVars == <<isActive, managerConfig, activePositions, orders, tasks, msg>>
fnVars == <<fn, args, ret>>
utilVars == <<localStorage, thisConfig, saveCall, saves, logs, consoleOut, storing, logCalls>>
adapterVars == <<adapter, clock, requests, sleeping, sent, calls>>
popupVars == <<popup, configManager>>
retryVars == <<retry>>
mlVars == <<ml>>
vars == <<evalVars, valVars, workerVars, fnVars, utilVars, adapterVars, popupVars, retryVars, mlVars>>

-----------------------------------------------------------------------------
(* Bounds of the model.                                                    *)

\* number of platform names a configuration may list
MaxPlatforms == 2
\* number of open positions checkCorrelationRisk may see
MaxPositions == 3
\* number of orders the analysis passes may submit
MaxOrders == 2
\* number of analysis passes that may be in flight together
MaxPasses == 2
\* number of saveConfig calls
MaxSaves == 2
\* number of entries a caller logs
MaxLogCalls == 2
\* number of makeRequest calls on the adapter
MaxRequests == 12
\* the last instant of the clock (steps of 500 ms)
MaxTime == 3

-----------------------------------------------------------------------------
(* Value domains.                                                          *)

Symbols == {"BTC", "DOGE"}
AllPlatforms == <<"binance", "coinbase", "kraken", "alpaca">>
PlatformNames == {AllPlatforms[i] : i \in 1..(IF MaxPlatforms < 4 THEN MaxPlatforms ELSE 4)}
ParamNames == {"maxPositionSize", "maxDailyLoss", "maxTotalExposure", "stopLossPercentage"}

Min(a, b) == IF a <= b THEN a ELSE b
Max(a, b) == IF a >= b THEN a ELSE b

\* exact rationals n/d, d > 0
Rat(n, d) == [n |-> n, d |-> d]
RatLt(x, y) == x.n * y.d < y.n * x.d
RatLe(x, y) == x.n * y.d <= y.n * x.d
RatMin(x, y) == IF RatLe(x, y) THEN x ELSE y
RatMax(x, y) == IF RatLe(x, y) THEN y ELSE x

\* the number NaN, which 0/0 evaluates to; every comparison with it is false
\* and Math.min and Math.max of it are NaN
NaN == [n |-> 0, d |-> 0]
isNaN(x) == x.d = 0

\* `result.tradingConfig || {}`: a configuration object with none of its parts
NoConfig ==
    [hasRisk |-> FALSE, missing |-> {},
     maxPositionSize |-> 0, maxDailyLoss |-> 0, maxTotalExposure |-> 0,
     stopLossPercentage |-> 0, useKellyCriterion |-> FALSE,
     minTradeValue |-> 0, maxTradeValue |-> 0, maxSectorExposure |-> 0,
     hasPlatforms |-> FALSE, platforms |-> {},
     hasTrading |-> FALSE, allowedSymbols |-> {}, blockedSymbols |-> {}]

\* the defaults of ConfigManager.getDefaultConfig, with the given platforms
\* (minTradeValue 10 dollars, maxTradeValue 1000 dollars, maxSectorExposure 0.3;
\* an optional setting that is 0 is absent: the code reads each with `|| default`)
DefaultConfig(ps) ==
    [hasRisk |-> TRUE, missing |-> {},
     maxPositionSize |-> 2, maxDailyLoss |-> 1, maxTotalExposure |-> 80,
     stopLossPercentage |-> 2, useKellyCriterion |-> FALSE,
     minTradeValue |-> 1, maxTradeValue |-> 100, maxSectorExposure |-> 30,
     hasPlatforms |-> TRUE, platforms |-> ps,
     hasTrading |-> TRUE, allowedSymbols |-> {}, blockedSymbols |-> {}]

PlatformSets == {ps \in SUBSET PlatformNames : Cardinality(ps) <= MaxPlatforms}

\* The configurations storage may hold: nothing, or a full configuration whose
\* riskSettings carry all four parameters (every writer stores all four).
\* maxPositionSize lies on both sides of the bounds validateConfig states;
\* the further variants switch on the Kelly criterion, carry a stop loss the
\* popup's own validateConfig never looks at, block a symbol, and leave the
\* optional settings out as TradingPopup.getDefaultConfig does.
StoredConfigs ==
    {NoConfig}
    \cup {[DefaultConfig(ps) EXCEPT !.maxPositionSize = mps]
            : ps \in PlatformSets, mps \in {0, 2, 10, 15}}
    \cup {[DefaultConfig({"binance"}) EXCEPT !.maxPositionSize = 10,
                                             !.useKellyCriterion = TRUE],
          [DefaultConfig({"binance"}) EXCEPT !.stopLossPercentage = 50],
          [DefaultConfig({"binance"}) EXCEPT !.blockedSymbols = {"DOGE"}],
          [DefaultConfig({"binance"}) EXCEPT !.allowedSymbols = {"BTC"}],
          [DefaultConfig({"binance"}) EXCEPT !.maxPositionSize = 10,
                                             !.maxTotalExposure = 90,
                                             !.minTradeValue = 0, !.maxTradeValue = 0,
                                             !.maxSectorExposure = 0]}

-----------------------------------------------------------------------------
(* RiskManager: configuration validation.                                  *)

\* `x <= 0 || x > hi` on a riskSettings parameter: a parameter that is absent
\* destructures to undefined, and both comparisons with undefined are false
OutOfRange(config, name, hi) ==
    /\ name \notin config.missing
    /\ (config[name] <= 0 \/ config[name] > hi)

\* the validationErrors list RiskManager.validateConfig builds, in order
validationErrors(config) ==
    (IF ~config.hasRisk
        THEN <<"Risk settings are required">>
        ELSE (IF OutOfRange(config, "maxPositionSize", 10)
                 THEN <<"Max position size must be between 0 and 10% of portfolio">>
                 ELSE <<>>)
          \o (IF OutOfRange(config, "maxDailyLoss", 5)
                 THEN <<"Max daily loss must be between 0 and 5% of portfolio">>
                 ELSE <<>>)
          \o (IF OutOfRange(config, "maxTotalExposure", 100)
                 THEN <<"Max total exposure must be between 0 and 100% of portfolio">>
                 ELSE <<>>)
          \o (IF OutOfRange(config, "stopLossPercentage", 10)
                 THEN <<"Stop loss percentage must be between 0 and 10%">>
                 ELSE <<>>))
    \o (IF ~config.hasPlatforms \/ config.platforms = {}
           THEN <<"At least one trading platform must be configured">>
           ELSE <<>>)
    \o (IF ~config.hasTrading
           THEN <<"Trading settings are required">>
           ELSE <<>>)

\* RiskManager.validateConfig: throws (with the joined list) or returns true
validateConfig(config) ==
    LET errs == validationErrors(config)
    IN  IF Len(errs) > 0
           THEN [outcome |-> "threw", errors |-> errs]
           ELSE [outcome |-> "true", errors |-> <<>>]

NoResult == [outcome |-> "none", errors |-> <<>>]

\* the value of ret while the method called has not returned, and once it has
Pending == [done |-> FALSE]
Returned(value) == [done |-> TRUE, value |-> value]

-----------------------------------------------------------------------------
(* The service worker's state.                                             *)

\* the alarms of setupAlarms that handleAlarm turns into an analysis pass
TradingAlarms == {"trading-check-1m", "trading-check-5m", "trading-check-15m"}

\* a handleAlarm invocation: where it is suspended, the watchlist index it is
\* at, the signal of the analysis it holds, the order it waits for
NoTask == [pc |-> "idle", idx |-> 0, signal |-> "", orderId |-> 0]

\* the messages the popup sends (sendMessage callers of the popup)
MessageTypes ==
    {"START_TRADING", "STOP_TRADING", "EMERGENCY_STOP", "UPDATE_CONFIG", "GET_STATUS"}

\* a message with no config property
NoMessageConfig == [risk |-> NoConfig, closePositionsOnStop |-> FALSE]

\* the config property of a START_TRADING or UPDATE_CONFIG message
MessageConfigs ==
    [risk : {DefaultConfig({"binance"}),
             DefaultConfig({}),
             [DefaultConfig({"binance"}) EXCEPT !.missing = {"maxPositionSize"}]},
     closePositionsOnStop : BOOLEAN]

NoMessage ==
    [type |-> "", config |-> NoMessageConfig, pc |-> "none", validation |-> NoResult,
     visited |-> {}, success |-> FALSE, error |-> ""]

\* the watchlists a stored configuration may hold
Watchlists == {<<>>, <<"BTC">>, <<"BTC", "DOGE">>}

\* ConfigManager.getDefaultConfig, as far as the worker reads it: a watchlist
\* (shortened to two symbols) and no closePositionsOnStop
DefaultManagerConfig == [closePositionsOnStop |-> FALSE, watchlist |-> <<"BTC", "DOGE">>]

-----------------------------------------------------------------------------
(* RiskManager: the checks behind the gates of evaluateOpportunity.        *)

\* RiskManager.isSymbolAllowed (config.tradingSettings?.allowedSymbols: with no
\* tradingSettings both lists are undefined)
isSymbolAllowed(config, sym) ==
    LET whitelist == IF config.hasTrading THEN config.allowedSymbols ELSE {}
        blacklist == IF config.hasTrading THEN config.blockedSymbols ELSE {}
    IN  IF sym \in blacklist THEN FALSE
        ELSE IF whitelist # {} THEN sym \in whitelist
        ELSE TRUE

\* RiskManager.isMarketHours returns an object {crypto, stocks}: as the value of
\* conditions.isMarketHours it is truthy whatever the hour
isMarketHours == TRUE

\* what RiskManager.getMarketConditions returns today
MockConditions ==
    [volatility |-> 20, majorEvents |-> 0, isMarketHours |-> isMarketHours,
     liquidityScore |-> 80]

\* RiskManager.assessMarketConditions on the conditions getMarketConditions
\* returned (failed: getMarketConditions threw, the catch answers HIGH)
assessMarketConditions(conditions, failed) ==
    IF failed THEN "HIGH"
    ELSE
      LET l1 == IF conditions.volatility > 40 THEN "HIGH"
                ELSE IF conditions.volatility > 25 THEN "MEDIUM"
                ELSE "LOW"
          l2 == IF conditions.majorEvents > 0
                   THEN (IF l1 = "HIGH" THEN "EXTREME" ELSE "HIGH")
                   ELSE l1
          l3 == IF ~conditions.isMarketHours /\ l2 = "LOW" THEN "MEDIUM" ELSE l2
          l4 == IF conditions.liquidityScore < 50
                   THEN (IF l3 = "HIGH" THEN "EXTREME" ELSE "HIGH")
                   ELSE l3
      IN  l4

\* RiskManager.getAssetSector
getAssetSector(sym) ==
    IF sym \in {"AAPL", "GOOGL", "MSFT"} THEN "Technology"
    ELSE IF sym \in {"BTC", "ETH"} THEN "Cryptocurrency"
    ELSE "null"

\* Number.prototype.toFixed(1) on the number n/d (d > 0, n >= 0): the decimal
\* numeral with one digit after the point, rounded to nearest
toFixed1(n, d) ==
    LET tenths == (2 * 10 * n + d) \div (2 * d)
    IN  [int |-> tenths \div 10, frac |-> tenths % 10]

\* a faulty variant: the value has to be above the cap
aboveCap(value, cap) == value > cap

\* `exposure >= cap`, the comparison of each of the three exposure checks
reachesCap(value, cap) == value >= cap

\* RiskManager.checkPortfolioExposure.  cur is what getCurrentExposure computed:
\* total, the symbol's exposure (0 when it has none) and its sector's.
\* storageOk: the chrome.storage reads of getConfig and getCurrentExposure succeed.
\* shown: the two percentages the reason string quotes, measured value and
\* limit.  A cap that riskSettings does not carry is undefined, and no number
\* is >= undefined.
checkPortfolioExposure(config, storageOk, cur, sym) ==
    IF ~storageOk \/ ~config.hasRisk
       THEN [allowed |-> FALSE, reason |-> "Portfolio exposure check failed",
             shown |-> <<>>, failed |-> TRUE]
    ELSE
      LET maxTotalExposure == config.maxTotalExposure
          maxSingleAssetExposure == config.maxPositionSize
          maxSectorExposure == IF config.maxSectorExposure # 0
                                  THEN config.maxSectorExposure ELSE 30
      IN  IF "maxTotalExposure" \notin config.missing
             /\ reachesCap(cur.total, maxTotalExposure)
             THEN [allowed |-> FALSE, failed |-> FALSE,
                   reason |-> "Total portfolio exposure exceeds limit",
                   shown |-> <<toFixed1(cur.total, 1), toFixed1(maxTotalExposure, 1)>>]
          ELSE IF "maxPositionSize" \notin config.missing
                  /\ reachesCap(cur.asset, maxSingleAssetExposure)
             THEN [allowed |-> FALSE, failed |-> FALSE,
                   reason |-> "Exposure to symbol exceeds single asset limit",
                   shown |-> <<toFixed1(cur.asset, 1),
                               toFixed1(maxSingleAssetExposure, 1)>>]
          ELSE IF getAssetSector(sym) # "null" /\ reachesCap(cur.sector, maxSectorExposure)
             THEN [allowed |-> FALSE, failed |-> FALSE,
                   reason |-> "Exposure to sector exceeds limit",
                   shown |-> <<toFixed1(cur.sector, 1), toFixed1(maxSectorExposure, 1)>>]
          ELSE [allowed |-> TRUE, failed |-> FALSE, reason |-> "", shown |-> <<>>]

\* RiskManager.assessSignalQuality: the score in hundredths (confidences are in
\* tenths), after Math.min(score, 1.0)
assessSignalQuality(a) ==
    LET score == 4 * a.confidence
                 + (IF "technical" \in a.has THEN 3 * a.technical ELSE 0)
                 + (IF "sentiment" \in a.has THEN 2 * a.sentiment ELSE 0)
                 + (IF "machineLearning" \in a.has THEN 1 * a.machineLearning ELSE 0)
    IN  Min(score, 100)

\* a faulty variant: `signalQuality.score <= 0.6`
qualityTooLowInclusive(score) == score <= 60

\* evaluateOpportunity: `signalQuality.score < 0.6`
qualityTooLow(score) == score < 60

\* RiskManager.calculateKellyPosition on the statistics of getHistoricalWinRate
\* (percent), getAverageWin and getAverageLoss (percent); failed: a lookup threw.
\* (b*p - q)/b with b = avgWin/avgLoss is (p*avgWin - q*avgLoss)/avgWin; with
\* avgWin = 0 and q > 0 it is -Infinity, which Math.max clamps to 0; with
\* avgWin = 0 and q = 0 it is 0/0, NaN, which Math.min and Math.max return.
calculateKellyPosition(winRate, avgWin, avgLoss, failed) ==
    IF failed THEN Rat(2, 100)
    ELSE IF avgLoss <= 0 THEN Rat(0, 1)
    ELSE IF avgWin = 0 /\ winRate = 100 THEN NaN
    ELSE IF avgWin = 0 THEN Rat(0, 1)
    ELSE
      LET kellyFraction == Rat(winRate * avgWin - (100 - winRate) * avgLoss,
                               100 * avgWin)
      IN  RatMax(Rat(0, 1), RatMin(kellyFraction, Rat(5, 100)))

\* a faulty variant: the offset 0.2 written as 2
confidenceAdjustmentOffByTen(a) == 2 * a.confidence + 50

\* `analysis.confidence * 0.8 + 0.2`, in 25ths (the confidence is in tenths)
confidenceAdjustment(a) == 2 * a.confidence + 5

\* calculatePositionSize: baseSize after the confidence, volatility, market
\* and Kelly adjustments, before the minimum and maximum trade values
baseSize(config, a, volatility, level, kelly) ==
    LET volatilityAdjustment == Max(3, 10 - volatility)    \* in tenths
        marketAdjustment == IF level = "HIGH" THEN 5
                            ELSE IF level = "MEDIUM" THEN 7 ELSE 10
        adjusted == Rat(config.maxPositionSize * confidenceAdjustment(a)
                          * volatilityAdjustment * marketAdjustment,
                        100 * 25 * 10 * 10)
    IN  IF ~config.useKellyCriterion THEN adjusted
        ELSE IF isNaN(kelly) THEN NaN
        ELSE RatMin(adjusted, kelly)

\* a faulty variant: the default 10 dollars whatever is configured
minTradeValueDefaultOnly(config) == 1

\* `config.riskSettings.minTradeValue || 10` (10 dollars are 1)
minTradeValue(config) ==
    IF config.minTradeValue # 0 THEN config.minTradeValue ELSE 1

\* RiskManager.calculatePositionSize.  pv: getTotalPortfolioValue; volatility:
\* getAssetVolatility; level: the level its own assessMarketConditions call
\* returned; kelly: calculateKellyPosition's result.
calculatePositionSize(config, storageOk, a, pv, volatility, level, kelly) ==
    IF ~storageOk \/ ~config.hasRisk
       THEN [size |-> Rat(0, 1), failed |-> TRUE]
    ELSE
      LET size == baseSize(config, a, volatility, level, kelly)
          maxFraction == IF config.maxTradeValue # 0
                            THEN Rat(config.maxTradeValue, pv) ELSE Rat(1, 10)
      IN  IF isNaN(size) THEN [size |-> NaN, failed |-> FALSE]
          ELSE IF size.n * pv < minTradeValue(config) * size.d
             THEN [size |-> Rat(0, 1), failed |-> FALSE]
             ELSE [size |-> RatMin(size, maxFraction), failed |-> FALSE]

\* a faulty variant: the test without Math.abs
highlyCorrelatedSigned(correlation) == correlation > 7

\* `Math.abs(corr.correlation) > 0.7` (correlations are in tenths)
highlyCorrelated(correlation) ==
    (IF correlation < 0 THEN -correlation ELSE correlation) > 7

\* the exposure checkCorrelationRisk sums: that of the positions whose
\* |correlation| is above 0.7
RECURSIVE totalCorrelatedExposure(_)
totalCorrelatedExposure(correlations) ==
    IF correlations = <<>> THEN 0
    ELSE LET corr == Head(correlations)
         IN  (IF highlyCorrelated(corr.correlation) THEN corr.exposure ELSE 0)
             + totalCorrelatedExposure(Tail(correlations))

\* RiskManager.checkCorrelationRisk (failed: getCurrentPositions or
\* getCorrelation threw, the catch answers UNKNOWN)
checkCorrelationRisk(correlations, failed) ==
    IF failed THEN "UNKNOWN"
    ELSE LET total == totalCorrelatedExposure(correlations)
         IN  IF total > 30 THEN "HIGH"
             ELSE IF total > 15 THEN "MEDIUM" ELSE "LOW"

\* RiskManager.assessPlatformRisk: the configured platforms that support the
\* symbol, pass the health check and are not rated HIGH (usable)
assessPlatformRisk(config, usable) ==
    (IF config.hasPlatforms THEN config.platforms ELSE {}) \cap usable

\* RiskManager.calculateRiskLevel
calculateRiskLevel(a, exposureTotal, correlationLevel) ==
    LET factors ==
            (IF a.confidence < 7 THEN {"LOW_CONFIDENCE"} ELSE {})
            \cup (IF exposureTotal > 80 THEN {"HIGH_EXPOSURE"} ELSE {})
            \cup (IF correlationLevel = "HIGH" THEN {"HIGH_CORRELATION"} ELSE {})
            \cup (IF "machineLearning" \in a.has /\ a.mlVolatility = "HIGH"
                     THEN {"HIGH_VOLATILITY"} ELSE {})
    IN  IF "HIGH_EXPOSURE" \in factors \/ "HIGH_CORRELATION" \in factors THEN "HIGH"
        ELSE IF Cardinality(factors) >= 2 THEN "MEDIUM"
        ELSE "LOW"

\* RiskManager.getTradeConditions
getTradeConditions(a, riskLevel) ==
    (IF riskLevel = "HIGH"
        THEN {"Reduced position size due to high risk", "Tighter stop loss required"}
        ELSE {})
    \cup (IF a.confidence < 8
             THEN {"Limit order recommended due to lower confidence"} ELSE {})
    \cup (IF "machineLearning" \in a.has /\ a.mlVolatility = "HIGH"
             THEN {"Extra caution due to high volatility"} ELSE {})

-----------------------------------------------------------------------------
(* The inputs of an evaluation.                                            *)

\* analysis.analysis.{technical.overall, sentiment.overall, machineLearning}
\* .confidence; has: the sub-analyses present; wellFormed: analysis.analysis
\* is an object.  The first is the mockAnalysis of evaluateManualTrade
\* (score 0.61), then a weak one (0.26), a strong one (0.75) and one without
\* its analysis part.
Analyses ==
    {[confidence |-> 7, signal |-> "BUY", wellFormed |-> TRUE,
      has |-> {"technical", "sentiment", "machineLearning"},
      technical |-> 6, sentiment |-> 5, machineLearning |-> 5, mlVolatility |-> "MEDIUM"],
     [confidence |-> 2, signal |-> "SELL", wellFormed |-> TRUE,
      has |-> {"technical"},
      technical |-> 6, sentiment |-> 0, machineLearning |-> 0, mlVolatility |-> "LOW"],
     [confidence |-> 9, signal |-> "BUY", wellFormed |-> TRUE,
      has |-> {"technical", "sentiment", "machineLearning"},
      technical |-> 8, sentiment |-> 5, machineLearning |-> 5, mlVolatility |-> "HIGH"],
     [confidence |-> 9, signal |-> "BUY", wellFormed |-> FALSE,
      has |-> {},
      technical |-> 0, sentiment |-> 0, machineLearning |-> 0, mlVolatility |-> "LOW"]}

NoAnalysis ==
    [confidence |-> 0, signal |-> "HOLD", wellFormed |-> TRUE, has |-> {},
     technical |-> 0, sentiment |-> 0, machineLearning |-> 0, mlVolatility |-> "LOW"]

\* what getMarketConditions may return: today's mock (LOW) and rougher
\* markets (MEDIUM, HIGH, EXTREME)
MarketConditions ==
    {MockConditions,
     [MockConditions EXCEPT !.volatility = 30],
     [MockConditions EXCEPT !.volatility = 45],
     [MockConditions EXCEPT !.volatility = 45, !.majorEvents = 1]}

\* what getCurrentExposure may compute for the symbol (percent): nothing
\* held, a nearly full portfolio, one above the total cap, one full of the
\* symbol itself
Exposures ==
    {[total |-> 0, asset |-> 0, sector |-> 0],
     [total |-> 85, asset |-> 1, sector |-> 35],
     [total |-> 95, asset |-> 1, sector |-> 1],
     [total |-> 50, asset |-> 15, sector |-> 15]}

\* the open positions checkCorrelationRisk may walk through, each with its
\* correlation to the candidate (tenths) and its exposure (percent)
CorrelatedPositions ==
    {[correlation |-> 8, exposure |-> 12], [correlation |-> -9, exposure |-> 12],
     [correlation |-> 5, exposure |-> 12]}

RECURSIVE SeqsUpTo(_, _)
SeqsUpTo(S, n) ==
    IF n = 0 THEN {<<>>}
    ELSE LET shorter == SeqsUpTo(S, n - 1)
         IN  shorter \cup {Append(q, x) : q \in shorter, x \in S}

\* the statistics calculateKellyPosition may read: <<winRate, avgWin, avgLoss>>,
\* the first being today's mock
KellyStatistics == {<<55, 3, 2>>, <<52, 2, 2>>, <<40, 2, 2>>, <<55, 3, 0>>, <<55, 0, 2>>}

\* what getTotalPortfolioValue may return: its floor of 1000 dollars, and 10000
PortfolioValues == {100, 1000}

\* what getAssetVolatility may return (tenths): today's mock 0.3, and 0.8
AssetVolatilities == {3, 8}

-----------------------------------------------------------------------------
(* RiskManager.evaluateOpportunity, one action per gate.  Every await of   *)
(* the method lies between two gates or inside a gate's own check; what a  *)
(* collaborator answers (storage, market conditions, portfolio snapshot,   *)
(* statistics, open positions, platform health) is drawn when the gate     *)
(* asks for it.  The stored configuration is stable during one call.       *)

Gates == <<"symbol", "market", "exposure", "quality", "size", "correlation", "platform">>

\* the riskAssessment object evaluateOpportunity starts from
NewAssessment ==
    [approved |-> FALSE, recommendedSize |-> Rat(0, 1), reason |-> "",
     riskLevel |-> "UNKNOWN", approvedPlatforms |-> {}, conditions |-> {}]

\* the object the catch block of evaluateOpportunity returns
FailedAssessment ==
    [approved |-> FALSE, reason |-> "Risk evaluation failed",
     recommendedSize |-> Rat(0, 1), riskLevel |-> "UNKNOWN",
     approvedPlatforms |-> {}, conditions |-> {}]

\* a faulty variant: the catch block logs and rethrows
catchEvaluateRethrows == [assessment |-> FailedAssessment, rethrown |-> TRUE]

\* the catch block of evaluateOpportunity: the exception ends there
catchEvaluate == [assessment |-> FailedAssessment, rethrown |-> FALSE]

NoObs ==
    [marketLevel |-> "", exposure |-> [total |-> 0, asset |-> 0, sector |-> 0],
     score |-> 0, positionSize |-> Rat(0, 1), sizeConfigured |-> FALSE,
     sizeMps |-> 0, sizeLevel |-> "", correlationLevel |-> "",
     failed |-> {}]

\* `return riskAssessment` with the given reason
Reject(reason) ==
    /\ riskAssessment' = [riskAssessment EXCEPT !.reason = reason]
    /\ pc' = "done"
    /\ threw' = FALSE

\* an exception leaves the try block
Raise ==
    /\ riskAssessment' = catchEvaluate.assessment
    /\ threw' = catchEvaluate.rethrown
    /\ pc' = "done"

Pass(next) ==
    /\ pc' = next
    /\ UNCHANGED <<riskAssessment, threw>>

\* a caller invokes evaluateOpportunity(analysis, symbol)
Call ==
    /\ pc = "idle"
    /\ \E a \in Analyses, sym \in Symbols :
          /\ analysis' = a
          /\ symbol' = sym
    /\ pc' = "symbol"
    /\ trail' = <<>>
    /\ obs' = NoObs
    /\ riskAssessment' = NewAssessment
    /\ threw' = FALSE
    /\ UNCHANGED <<tradingConfig, valVars, workerVars, fnVars, utilVars, adapterVars, popupVars, retryVars, mlVars>>

GateSymbol ==
    /\ pc = "symbol"
    /\ trail' = Append(trail, "symbol")
    /\ \E storageOk \in BOOLEAN :
          IF ~storageOk
             THEN obs' = [obs EXCEPT !.failed = @ \cup {"symbol"}] /\ Raise
          ELSE IF ~isSymbolAllowed(tradingConfig, symbol)
             THEN obs' = obs /\ Reject("Symbol not in allowed trading list")
          ELSE obs' = obs /\ Pass("market")
    /\ UNCHANGED <<tradingConfig, analysis, symbol, valVars, workerVars, fnVars, utilVars, adapterVars, popupVars, retryVars, mlVars>>

\* a faulty variant: the market gate sets its reason and forgets to return
GateMarketNoReturn ==
    /\ pc = "market"
    /\ trail' = Append(trail, "market")
    /\ \E conditions \in MarketConditions, failed \in BOOLEAN :
          LET level == assessMarketConditions(conditions, failed)
          IN  /\ obs' = [obs EXCEPT !.marketLevel = level,
                                    !.failed = IF failed THEN @ \cup {"market"} ELSE @]
              /\ riskAssessment' =
                    IF level = "EXTREME"
                       THEN [riskAssessment EXCEPT
                               !.reason = "Extreme market conditions detected"]
                       ELSE riskAssessment
              /\ pc' = "exposure"
              /\ threw' = threw
    /\ UNCHANGED <<tradingConfig, analysis, symbol, valVars, workerVars, fnVars, utilVars, adapterVars, popupVars, retryVars, mlVars>>

GateMarket ==
    /\ pc = "market"
    /\ trail' = Append(trail, "market")
    /\ \E conditions \in MarketConditions, failed \in BOOLEAN :
          LET level == assessMarketConditions(conditions, failed)
          IN  /\ obs' = [obs EXCEPT !.marketLevel = level,
                                    !.failed = IF failed THEN @ \cup {"market"} ELSE @]
              /\ IF level = "EXTREME"
                    THEN Reject("Extreme market conditions detected")
                    ELSE Pass("exposure")
    /\ UNCHANGED <<tradingConfig, analysis, symbol, valVars, workerVars, fnVars, utilVars, adapterVars, popupVars, retryVars, mlVars>>

GateExposure ==
    /\ pc = "exposure"
    /\ trail' = Append(trail, "exposure")
    /\ \E storageOk \in BOOLEAN, cur \in Exposures :
          LET exposureCheck == checkPortfolioExposure(tradingConfig, storageOk, cur, symbol)
          IN  /\ obs' = [obs EXCEPT !.exposure = IF exposureCheck.failed THEN @ ELSE cur,
                                    !.failed = IF exposureCheck.failed
                                                  THEN @ \cup {"exposure"} ELSE @]
              /\ IF ~exposureCheck.allowed
                    THEN Reject(exposureCheck.reason)
                    ELSE Pass("quality")
    /\ UNCHANGED <<tradingConfig, analysis, symbol, valVars, workerVars, fnVars, utilVars, adapterVars, popupVars, retryVars, mlVars>>

GateQuality ==
    /\ pc = "quality"
    /\ trail' = Append(trail, "quality")
    /\ IF ~analysis.wellFormed
          THEN obs' = [obs EXCEPT !.failed = @ \cup {"quality"}] /\ Raise
          ELSE LET score == assessSignalQuality(analysis)
               IN  /\ obs' = [obs EXCEPT !.score = score]
                   /\ IF qualityTooLow(score)
                         THEN Reject("Signal quality too low for trading")
                         ELSE Pass("size")
    /\ UNCHANGED <<tradingConfig, analysis, symbol, valVars, workerVars, fnVars, utilVars, adapterVars, popupVars, retryVars, mlVars>>

\* a faulty variant: `positionSize < 0`
tooSmallToTradeStrict(positionSize) == ~isNaN(positionSize) /\ positionSize.n < 0

\* `positionSize <= 0`, the test of the position-size gate
tooSmallToTrade(positionSize) == ~isNaN(positionSize) /\ positionSize.n <= 0

\* the statistics calculateKellyPosition is asked for: none unless
\* riskSettings.useKellyCriterion is set
KellyDraws(config) ==
    IF config.hasRisk /\ config.useKellyCriterion
       THEN KellyStatistics \X BOOLEAN
       ELSE {<<(<<55, 3, 2>>), FALSE>>}

GateSize ==
    /\ pc = "size"
    /\ trail' = Append(trail, "size")
    /\ \E storageOk \in BOOLEAN, pv \in PortfolioValues,
          volatility \in AssetVolatilities,
          conditions \in MarketConditions, mfailed \in BOOLEAN,
          kd \in KellyDraws(tradingConfig) :
          LET level == assessMarketConditions(conditions, mfailed)
              kelly == calculateKellyPosition(kd[1][1], kd[1][2], kd[1][3], kd[2])
              sized == calculatePositionSize(tradingConfig, storageOk, analysis,
                                             pv, volatility, level, kelly)
              positionSize == sized.size
          IN  /\ obs' = [obs EXCEPT !.positionSize = positionSize,
                                    !.sizeConfigured = ~sized.failed,
                                    !.sizeMps = IF sized.failed THEN 0
                                                ELSE tradingConfig.maxPositionSize,
                                    !.sizeLevel = IF sized.failed THEN "" ELSE level,
                                    !.failed = @ \cup (IF sized.failed THEN {"size"} ELSE {})
                                                 \cup (IF kd[2] THEN {"kelly"} ELSE {})]
              /\ IF tooSmallToTrade(positionSize)
                    THEN Reject("Calculated position size too small to trade")
                    ELSE Pass("correlation")
    /\ UNCHANGED <<tradingConfig, analysis, symbol, valVars, workerVars, fnVars, utilVars, adapterVars, popupVars, retryVars, mlVars>>

GateCorrelation ==
    /\ pc = "correlation"
    /\ trail' = Append(trail, "correlation")
    /\ \E correlations \in SeqsUpTo(CorrelatedPositions, MaxPositions),
          failed \in BOOLEAN :
          LET level == checkCorrelationRisk(correlations, failed)
          IN  /\ obs' = [obs EXCEPT !.correlationLevel = level,
                                    !.failed = IF failed THEN @ \cup {"correlation"} ELSE @]
              /\ IF level = "HIGH"
                    THEN Reject("High correlation with existing positions")
                    ELSE Pass("platform")
    /\ UNCHANGED <<tradingConfig, analysis, symbol, valVars, workerVars, fnVars, utilVars, adapterVars, popupVars, retryVars, mlVars>>

GatePlatform ==
    /\ pc = "platform"
    /\ trail' = Append(trail, "platform")
    /\ \E storageOk \in BOOLEAN, usable \in SUBSET PlatformNames :
          IF ~storageOk
             THEN obs' = [obs EXCEPT !.failed = @ \cup {"platform"}] /\ Raise
          ELSE
            LET approvedPlatforms == assessPlatformRisk(tradingConfig, usable)
                riskLevel == calculateRiskLevel(analysis, obs.exposure.total,
                                                obs.correlationLevel)
            IN  /\ obs' = obs
                /\ pc' = "done"
                /\ threw' = FALSE
                /\ IF approvedPlatforms = {}
                      THEN riskAssessment' =
                             [riskAssessment EXCEPT
                                !.reason = "No approved platforms for this trade"]
                      ELSE riskAssessment' =
                             [riskAssessment EXCEPT
                                !.approvedPlatforms = approvedPlatforms,
                                !.approved = TRUE,
                                !.recommendedSize = obs.positionSize,
                                !.riskLevel = riskLevel,
                                !.conditions = getTradeConditions(analysis, riskLevel)]
    /\ UNCHANGED <<tradingConfig, analysis, symbol, valVars, workerVars, fnVars, utilVars, adapterVars, popupVars, retryVars, mlVars>>

\* the caller has the assessment; the next call may follow
Return ==
    /\ pc = "done"
    /\ pc' = "idle"
    /\ analysis' = NoAnalysis
    /\ symbol' = ""
    /\ trail' = <<>>
    /\ obs' = NoObs
    /\ riskAssessment' = NewAssessment
    /\ threw' = FALSE
    /\ UNCHANGED <<tradingConfig, valVars, workerVars, fnVars, utilVars, adapterVars, popupVars, retryVars, mlVars>>

\* between two calls the stored configuration is replaced (popup, ConfigManager)
StorageSet ==
    /\ pc = "idle"
    /\ tradingConfig' \in StoredConfigs \ {tradingConfig}
    /\ UNCHANGED <<pc, analysis, symbol, trail, obs, riskAssessment, threw, valVars, workerVars, fnVars, utilVars, adapterVars, popupVars, retryVars, mlVars>>

-----------------------------------------------------------------------------
(* ConfigManager.saveConfig and Logger.log.  An object is the set of its   *)
(* leaves, each with the path of keys that leads to it; the entry i of an  *)
(* array has the key "i".  Strings are opaque, so toLowerCase and includes *)
(* are tabulated for the keys and the patterns that occur.                 *)

\* the keys of the entries of an array
ArrayIndices == {"0"}

\* String.prototype.toLowerCase on the field names
toLowerCase(key) ==
    CASE key = "apiKey" -> "apikey"
      [] key = "apiSecret" -> "apisecret"
      [] key = "privateKey" -> "privatekey"
      [] OTHER -> key

\* String.prototype.includes: str contains sub, for the lower-case field
\* names and the patterns of the two sensitiveKeys lists (no mixed-case
\* pattern is contained in a lower-case string)
includes(str, sub) ==
    \/ sub = str
    \/ sub = "secret" /\ str \in {"apisecret", "api_secret"}

\* ConfigManager.separateSensitiveData: sensitiveKeys
configSensitiveKeys == {"apiKey", "apiSecret", "password", "token", "privateKey"}

\* extractSensitiveData: sensitiveKeys.some(sensitiveKey =>
\*   key.toLowerCase().includes(sensitiveKey.toLowerCase()))
isConfigSensitive(key) ==
    \E sensitiveKey \in configSensitiveKeys :
        includes(toLowerCase(key), toLowerCase(sensitiveKey))

\* extractSensitiveData reaches the key path[i]: no key above it is sensitive
\* and every value above it is an object that is not an array
extractReaches(path, i) ==
    \A j \in 1..(i - 1) :
        ~isConfigSensitive(path[j]) /\ path[j + 1] \notin ArrayIndices

\* the depths at which extractSensitiveData takes the value on this path out
\* (at most one)
extractDepths(path) ==
    {i \in 1..Len(path) : extractReaches(path, i) /\ isConfigSensitive(path[i])}

\* separateSensitiveData(config).publicConfig: the deep clone with every
\* value taken out replaced by '[ENCRYPTED]'
publicConfig(entries) ==
    {e \in entries : extractDepths(e.path) = {}}
    \cup UNION {{[path |-> SubSeq(e.path, 1, i), value |-> "[ENCRYPTED]"] :
                   i \in extractDepths(e.path)} : e \in entries}

\* separateSensitiveData(config).sensitiveData: under the dotted path of each
\* key taken out, the value it held (rest: the path of a leaf inside it)
sensitiveData(entries) ==
    UNION {{[path |-> SubSeq(e.path, 1, i),
             rest |-> SubSeq(e.path, i + 1, Len(e.path)),
             value |-> e.value] : i \in extractDepths(e.path)} : e \in entries}

\* encryptSensitiveData: btoa(JSON.stringify(data)) with its version
encryptSensitiveData(data) == [encrypted |-> [base64 |-> data], version |-> 1]

\* Logger.sanitizeData: sensitiveKeys
logSensitiveKeys ==
    {"apikey", "api_key", "apiSecret", "api_secret", "password", "token",
     "secret", "private_key", "privateKey", "signature"}

\* sanitizeData: sensitiveKeys.some(sensitive => lowerKey.includes(sensitive))
isLogSensitive(key) ==
    \E sensitive \in logSensitiveKeys : includes(toLowerCase(key), sensitive)

\* the depths at which sanitizeData redacts the value on this path (at most
\* one): it descends into objects and arrays alike
redactDepths(path) ==
    {i \in 1..Len(path) :
        /\ isLogSensitive(path[i])
        /\ \A j \in 1..(i - 1) : ~isLogSensitive(path[j])}

\* Logger.sanitizeData on an object
sanitizeData(entries) ==
    {e \in entries : redactDepths(e.path) = {}}
    \cup UNION {{[path |-> SubSeq(e.path, 1, i), value |-> "[REDACTED]"] :
                   i \in redactDepths(e.path)} : e \in entries}

\* Logger.levels, and this.logLevel outside production (DEBUG)
levels == [ERROR |-> 0, WARN |-> 1, INFO |-> 2, DEBUG |-> 3, TRACE |-> 4]
logLevel == levels["DEBUG"]

\* this.maxLogs, and the number of entries storeLog keeps
maxLogs == 1000
maxStoredLogs == 500

\* `data ? this.sanitizeData(data) : null`
NullData == [isNull |-> TRUE, entries |-> {}]
ObjectData(entries) == [isNull |-> FALSE, entries |-> entries]

\* the logEntry of Logger.log (its timestamp and stack trace left out)
logEntry(context, level, message, data) ==
    [level |-> level, context |-> context, message |-> message,
     data |-> IF data.isNull THEN NullData
              ELSE ObjectData(sanitizeData(data.entries))]

\* the last n elements of a sequence
LastN(s, n) == IF Len(s) > n THEN SubSeq(s, Len(s) - n + 1, Len(s)) ELSE s

\* outputToConsole, and the console.debug of sendToRemoteLogging for the
\* levels ERROR and WARN
consoleLines(entry) ==
    IF entry.level \in {"ERROR", "WARN"} THEN <<entry, entry>> ELSE <<entry>>

\* this.config of a ConfigManager that has loaded nothing
NullConfig == [isNull |-> TRUE, risk |-> "absent", entries |-> {}]

\* ConfigManager.validateConfig(config).errors, as far as riskSettings decide
\* them: absent, within the ranges, or maxPositionSize above 0.1
configErrors(c) ==
    IF c.isNull THEN <<"Configuration validation failed">>
    ELSE IF c.risk = "tooLarge"
       THEN <<"Max position size must be between 0.1% and 10%">>
    ELSE <<>>

\* chrome.storage.local holds none of the three keys
EmptyStorage ==
    [tradingConfig |-> NullConfig,
     encryptedSecrets |-> encryptSensitiveData({}),
     hasSecrets |-> FALSE,
     tradingLogs |-> <<>>]

\* no saveConfig call under way
NoSave == [pc |-> "idle", config |-> NullConfig, result |-> "none"]

\* a ConfigManager and a Logger just constructed, nothing stored or logged
UtilIdle ==
    /\ localStorage = EmptyStorage
    /\ thisConfig = NullConfig
    /\ saveCall = NoSave
    /\ saves = 0
    /\ logs = [context \in {"AITrading", "ConfigManager"} |-> <<>>]
    /\ consoleOut = <<>>
    /\ storing = {}
    /\ logCalls = 0

\* RateLimiter: requestsPerSecond and interval (1000 ms, two steps of the clock)
requestsPerSecond == 10
interval == 2

\* the instants of the clock
Times == 0..MaxTime

\* the instants a sleeping wait() may be due at
WakeTimes == 0..(MaxTime + interval)

\* an adapter just constructed: an empty RateLimiter, nothing sent
AdapterNew ==
    /\ clock = 0
    /\ requests = [t \in Times |-> 0]
    /\ sleeping = [t \in WakeTimes |-> 0]
    /\ sent = [t \in Times |-> 0]
    /\ calls = 0

\* no adapter under observation
AdapterIdle ==
    /\ adapter = "coinbase"
    /\ AdapterNew

\* the popup is closed and the ConfigManager has loaded nothing
PopupIdle ==
    /\ popup = [open |-> FALSE, config |-> NoConfig]
    /\ configManager = [isLoaded |-> FALSE, config |-> NoConfig]

\* no retry call under way
NoRetry ==
    [pc |-> "idle", maxAttempts |-> 0, delay |-> 0, attempt |-> 0,
     invoked |-> 0, errors |-> <<>>, waits |-> <<>>, lastError |-> "",
     thrown |-> "", result |-> ""]

RetryIdle == retry = NoRetry

\* a predict call that has not been made (initialized is isInitialized as
\* the call found it, before the cache as the call found it)
NoPredict ==
    [made |-> FALSE, symbol |-> "", initialized |-> FALSE, threw |-> FALSE,
     error |-> "", failed |-> FALSE, before |-> [s \in Symbols |-> {}], returned |-> {}]

\* the MachineLearning object after its constructor: no model, nothing
\* cached (predictions[s] holds the entry of symbol s, if any)
MlNew ==
    ml = [isInitialized |-> FALSE,
          loading |-> FALSE,
          calls |-> 0,
          predictions |-> [s \in Symbols |-> {}],
          call |-> NoPredict]

\* no evaluateOpportunity call in progress
EvalIdle ==
    /\ pc = "idle"
    /\ analysis = NoAnalysis
    /\ symbol = ""
    /\ trail = <<>>
    /\ obs = NoObs
    /\ riskAssessment = NewAssessment
    /\ threw = FALSE

\* no validateConfig call made
ValidateIdle ==
    /\ vConfig = NoConfig
    /\ vResult = NoResult

\* the service worker as its constructor leaves it
WorkerNew ==
    /\ isActive = FALSE
    /\ managerConfig = DefaultManagerConfig
    /\ activePositions = {}
    /\ orders = 0
    /\ tasks = [a \in TradingAlarms |-> NoTask]
    /\ msg = NoMessage

\* no method call under way
FnIdle ==
    /\ fn = ""
    /\ args = <<>>
    /\ ret = Pending

Init ==
    /\ tradingConfig \in StoredConfigs
    /\ EvalIdle
    /\ ValidateIdle
    /\ WorkerNew
    /\ FnIdle
    /\ UtilIdle
    /\ AdapterIdle
    /\ PopupIdle
    /\ RetryIdle
    /\ MlNew

Next ==
    \/ Call
    \/ GateSymbol
    \/ GateMarket
    \/ GateExposure
    \/ GateQuality
    \/ GateSize
    \/ GateCorrelation
    \/ GatePlatform
    \/ Return
    \/ StorageSet

Spec == Init /\ [][Next]_vars

-----------------------------------------------------------------------------
(* RiskManager.validateConfig applied to arbitrary configurations.         *)

\* the cases a riskSettings parameter is drawn from: absent, zero, its upper
\* bound, just above its upper bound
ParamCases == {"absent", "zero", "bound", "above"}

\* the four parameters in the order validateConfig destructures them
ParamOrder == <<"maxPositionSize", "maxDailyLoss", "maxTotalExposure", "stopLossPercentage">>

ParamValue(c, hi) ==
    CASE c = "absent" -> 0
      [] c = "zero" -> 0
      [] c = "bound" -> hi
      [] c = "above" -> hi + 1

\* the cases of config.platforms: no such property, an empty list, one platform
PlatformCases == {"absent", "empty", "one"}

\* the configurations handed to validateConfig
ValidateInputs ==
    {[NoConfig EXCEPT !.hasPlatforms = (pf # "absent"),
                      !.platforms = IF pf = "one" THEN {"binance"} ELSE {},
                      !.hasTrading = ht] :
        pf \in PlatformCases, ht \in BOOLEAN}
    \cup
    {[DefaultConfig(IF pf = "one" THEN {"binance"} ELSE {}) EXCEPT
        !.missing = {ParamOrder[i] : i \in {j \in 1..4 : cs[j] = "absent"}},
        !.maxPositionSize = ParamValue(cs[1], 10),
        !.maxDailyLoss = ParamValue(cs[2], 5),
        !.maxTotalExposure = ParamValue(cs[3], 100),
        !.stopLossPercentage = ParamValue(cs[4], 10),
        !.hasPlatforms = (pf # "absent"),
        !.hasTrading = ht] :
        cs \in [1..4 -> ParamCases], pf \in PlatformCases, ht \in BOOLEAN}

\* a caller hands a configuration to validateConfig, which throws or returns
ValidateCall ==
    /\ vResult = NoResult
    /\ vResult' = validateConfig(vConfig)
    /\ UNCHANGED <<vConfig, evalVars, workerVars, fnVars, utilVars, adapterVars, popupVars, retryVars, mlVars>>

\* the caller has the outcome; the next configuration comes up for validation
ValidateNext ==
    /\ vResult # NoResult
    /\ vConfig' \in ValidateInputs
    /\ vResult' = NoResult
    /\ UNCHANGED <<evalVars, workerVars, fnVars, utilVars, adapterVars, popupVars, retryVars, mlVars>>

InitValidate ==
    /\ tradingConfig = NoConfig
    /\ EvalIdle
    /\ vConfig \in ValidateInputs
    /\ vResult = NoResult
    /\ WorkerNew
    /\ FnIdle
    /\ UtilIdle
    /\ AdapterIdle
    /\ PopupIdle
    /\ RetryIdle
    /\ MlNew

NextValidate ==
    \/ ValidateCall
    \/ ValidateNext

SpecValidate == InitValidate /\ [][NextValidate]_vars

-----------------------------------------------------------------------------
(* The service worker: alarm-driven analysis passes.  Each action is the   *)
(* code between two awaits of one handleAlarm invocation.                  *)

\* the pass moves on to the next symbol of the watchlist, or ends
NextSymbol(a) ==
    IF tasks[a].idx < Len(managerConfig.watchlist)
       THEN [NoTask EXCEPT !.pc = "marketData", !.idx = tasks[a].idx + 1]
       ELSE NoTask

\* handleAlarm for a trading-check alarm: returns at once unless trading is
\* active, else calls performTradingAnalysis, which awaits the configuration
AlarmFires(a) ==
    /\ tasks[a].pc = "idle"
    /\ isActive
    /\ Cardinality({b \in TradingAlarms : tasks[b].pc # "idle"}) < MaxPasses
    /\ tasks' = [tasks EXCEPT ![a] = [NoTask EXCEPT !.pc = "getConfig"]]
    /\ UNCHANGED <<isActive, managerConfig, activePositions, orders, msg, evalVars, valVars, fnVars, utilVars, adapterVars, popupVars, retryVars, mlVars>>

\* performTradingAnalysis has the configuration: it starts on the watchlist by
\* asking for the first symbol's market data
PassGetConfig(a) ==
    /\ tasks[a].pc = "getConfig"
    /\ tasks' = [tasks EXCEPT ![a] =
                    IF managerConfig.watchlist = <<>>
                       THEN NoTask
                       ELSE [NoTask EXCEPT !.pc = "marketData", !.idx = 1]]
    /\ UNCHANGED <<isActive, managerConfig, activePositions, orders, msg, evalVars, valVars, fnVars, utilVars, adapterVars, popupVars, retryVars, mlVars>>

\* getMarketData resolved (analyzeMarket is called) or rejected (the catch of
\* the loop body logs, and the loop goes on)
PassMarketData(a) ==
    /\ tasks[a].pc = "marketData"
    /\ \E resolved \in BOOLEAN :
          tasks' = [tasks EXCEPT ![a] =
                      IF resolved THEN [@ EXCEPT !.pc = "analyze"] ELSE NextSymbol(a)]
    /\ UNCHANGED <<isActive, managerConfig, activePositions, orders, msg, evalVars, valVars, fnVars, utilVars, adapterVars, popupVars, retryVars, mlVars>>

\* analyzeMarket resolved with an analysis (evaluateOpportunity is called) or
\* rejected
PassAnalyze(a) ==
    /\ tasks[a].pc = "analyze"
    /\ \E resolved \in BOOLEAN, signal \in {"BUY", "HOLD"} :
          tasks' = [tasks EXCEPT ![a] =
                      IF resolved
                         THEN [@ EXCEPT !.pc = "evaluate", !.signal = signal]
                         ELSE NextSymbol(a)]
    /\ UNCHANGED <<isActive, managerConfig, activePositions, orders, msg, evalVars, valVars, fnVars, utilVars, adapterVars, popupVars, retryVars, mlVars>>

\* evaluateOpportunity resolved with riskCheck: when it approved and the signal
\* is not HOLD, executeTrade submits the order to the trading engine
PassEvaluate(a) ==
    /\ tasks[a].pc = "evaluate"
    /\ \E approved \in BOOLEAN :
          IF approved /\ tasks[a].signal # "HOLD"
             THEN /\ orders < MaxOrders
                  /\ orders' = orders + 1
                  /\ tasks' = [tasks EXCEPT ![a] =
                                  [@ EXCEPT !.pc = "execute", !.orderId = orders + 1]]
             ELSE /\ orders' = orders
                  /\ tasks' = [tasks EXCEPT ![a] = NextSymbol(a)]
    /\ UNCHANGED <<isActive, managerConfig, activePositions, msg, evalVars, valVars, fnVars, utilVars, adapterVars, popupVars, retryVars, mlVars>>

\* the trading engine answered: a successful result is tracked as an open
\* position; a failed result or an exception is not
PassExecute(a) ==
    /\ tasks[a].pc = "execute"
    /\ \E outcome \in {"success", "failure", "threw"} :
          activePositions' =
              IF outcome = "success"
                 THEN activePositions \cup {tasks[a].orderId}
                 ELSE activePositions
    /\ tasks' = [tasks EXCEPT ![a] = NextSymbol(a)]
    /\ UNCHANGED <<isActive, managerConfig, orders, msg, evalVars, valVars, fnVars, utilVars, adapterVars, popupVars, retryVars, mlVars>>

-----------------------------------------------------------------------------
(* The service worker: popup messages (handleMessage).                     *)

\* sendResponse({success, error}): the handling of the message is over
Respond(success, error) ==
    msg' = [NoMessage EXCEPT !.type = msg.type, !.pc = "responded",
                             !.success = success, !.error = error]

\* ConfigManager.updateConfig: deepMerge of the message's config into the
\* configuration (the watchlist is not part of these messages)
mergedConfig ==
    [managerConfig EXCEPT !.closePositionsOnStop = msg.config.closePositionsOnStop]

\* the popup sends a message; the worker handles one message at a time
MsgReceive ==
    /\ msg.pc \in {"none", "responded"}
    /\ \E type \in MessageTypes, config \in MessageConfigs :
          msg' = [NoMessage EXCEPT
                    !.type = type,
                    !.pc = "received",
                    !.config = IF type \in {"START_TRADING", "UPDATE_CONFIG"}
                                  THEN config ELSE NoMessageConfig]
    /\ UNCHANGED <<isActive, managerConfig, activePositions, orders, tasks, evalVars, valVars, fnVars, utilVars, adapterVars, popupVars, retryVars, mlVars>>

\* startTrading up to its first await: refuses when already active, else
\* calls validateConfig
MsgStartTrading ==
    /\ msg.pc = "received" /\ msg.type = "START_TRADING"
    /\ IF isActive
          THEN Respond(FALSE, "Trading is already active")
          ELSE msg' = [msg EXCEPT !.pc = "validated",
                                  !.validation = validateConfig(msg.config.risk)]
    /\ UNCHANGED <<isActive, managerConfig, activePositions, orders, tasks, evalVars, valVars, fnVars, utilVars, adapterVars, popupVars, retryVars, mlVars>>

\* validateConfig threw (handleMessage answers with the error) or returned
\* (trading becomes active, updateConfig is called)
MsgStartActivate ==
    /\ msg.pc = "validated"
    /\ IF msg.validation.outcome = "threw"
          THEN /\ Respond(FALSE, "Configuration validation failed")
               /\ isActive' = isActive
          ELSE /\ isActive' = TRUE
               /\ msg' = [msg EXCEPT !.pc = "updateConfig", !.validation = NoResult]
    /\ UNCHANGED <<managerConfig, activePositions, orders, tasks, evalVars, valVars, fnVars, utilVars, adapterVars, popupVars, retryVars, mlVars>>

\* updateConfig of startTrading saved the configuration, or storage failed
MsgStartUpdate ==
    /\ msg.pc = "updateConfig"
    /\ \E saved \in BOOLEAN :
          IF saved
             THEN managerConfig' = mergedConfig /\ Respond(TRUE, "")
             ELSE managerConfig' = managerConfig /\ Respond(FALSE, "Storage failure")
    /\ UNCHANGED <<isActive, activePositions, orders, tasks, evalVars, valVars, fnVars, utilVars, adapterVars, popupVars, retryVars, mlVars>>

\* UPDATE_CONFIG: updateConfig saved the configuration, or storage failed
MsgUpdateConfig ==
    /\ msg.pc = "received" /\ msg.type = "UPDATE_CONFIG"
    /\ \E saved \in BOOLEAN :
          IF saved
             THEN managerConfig' = mergedConfig /\ Respond(TRUE, "")
             ELSE managerConfig' = managerConfig /\ Respond(FALSE, "Storage failure")
    /\ UNCHANGED <<isActive, activePositions, orders, tasks, evalVars, valVars, fnVars, utilVars, adapterVars, popupVars, retryVars, mlVars>>

\* stopTrading up to its await of the configuration
MsgStopTrading ==
    /\ msg.pc = "received" /\ msg.type = "STOP_TRADING"
    /\ isActive' = FALSE
    /\ msg' = [msg EXCEPT !.pc = "stopConfig"]
    /\ UNCHANGED <<managerConfig, activePositions, orders, tasks, evalVars, valVars, fnVars, utilVars, adapterVars, popupVars, retryVars, mlVars>>

\* stopTrading has the configuration: closes the positions if configured to
MsgStopConfig ==
    /\ msg.pc = "stopConfig"
    /\ IF managerConfig.closePositionsOnStop
          THEN msg' = [msg EXCEPT !.pc = "closing"]
          ELSE Respond(TRUE, "")
    /\ UNCHANGED <<isActive, managerConfig, activePositions, orders, tasks, evalVars, valVars, fnVars, utilVars, adapterVars, popupVars, retryVars, mlVars>>

\* closeAllPositions: closePosition of one tracked position resolved (the
\* position is deleted) or rejected (it is logged and stays)
MsgCloseOne ==
    /\ msg.pc = "closing"
    /\ \E orderId \in activePositions \ msg.visited, closed \in BOOLEAN :
          /\ activePositions' =
                IF closed THEN activePositions \ {orderId} ELSE activePositions
          /\ msg' = [msg EXCEPT !.visited = IF closed THEN @ ELSE @ \cup {orderId}]
    /\ UNCHANGED <<isActive, managerConfig, orders, tasks, evalVars, valVars, fnVars, utilVars, adapterVars, popupVars, retryVars, mlVars>>

\* closeAllPositions has gone through the positions; stopTrading returns
MsgCloseDone ==
    /\ msg.pc = "closing"
    /\ activePositions \subseteq msg.visited
    /\ Respond(TRUE, "")
    /\ UNCHANGED <<isActive, managerConfig, activePositions, orders, tasks, evalVars, valVars, fnVars, utilVars, adapterVars, popupVars, retryVars, mlVars>>

\* GET_STATUS
MsgGetStatus ==
    /\ msg.pc = "received" /\ msg.type = "GET_STATUS"
    /\ Respond(TRUE, "")
    /\ UNCHANGED <<isActive, managerConfig, activePositions, orders, tasks, evalVars, valVars, fnVars, utilVars, adapterVars, popupVars, retryVars, mlVars>>

\* the message types handleMessage has a case for, of those the model sends
HandledTypes == {"START_TRADING", "STOP_TRADING", "GET_STATUS", "UPDATE_CONFIG"}

\* the default case of handleMessage
MsgUnknown ==
    /\ msg.pc = "received" /\ msg.type \notin HandledTypes
    /\ Respond(FALSE, "Unknown message type")
    /\ UNCHANGED <<isActive, managerConfig, activePositions, orders, tasks, evalVars, valVars, fnVars, utilVars, adapterVars, popupVars, retryVars, mlVars>>

InitWorker ==
    /\ tradingConfig = NoConfig
    /\ EvalIdle
    /\ ValidateIdle
    /\ isActive = FALSE
    /\ managerConfig \in [closePositionsOnStop : {FALSE}, watchlist : Watchlists]
    /\ activePositions = {}
    /\ orders = 0
    /\ tasks = [a \in TradingAlarms |-> NoTask]
    /\ msg = NoMessage
    /\ FnIdle
    /\ UtilIdle
    /\ AdapterIdle
    /\ PopupIdle
    /\ RetryIdle
    /\ MlNew

NextWorker ==
    \/ \E a \in TradingAlarms : AlarmFires(a)
    \/ \E a \in TradingAlarms : PassGetConfig(a)
    \/ \E a \in TradingAlarms : PassMarketData(a)
    \/ \E a \in TradingAlarms : PassAnalyze(a)
    \/ \E a \in TradingAlarms : PassEvaluate(a)
    \/ \E a \in TradingAlarms : PassExecute(a)
    \/ MsgReceive
    \/ MsgStartTrading
    \/ MsgStartActivate
    \/ MsgStartUpdate
    \/ MsgUpdateConfig
    \/ MsgStopTrading
    \/ MsgStopConfig
    \/ MsgCloseOne
    \/ MsgCloseDone
    \/ MsgGetStatus
    \/ MsgUnknown

SpecWorker == InitWorker /\ [][NextWorker]_vars

-----------------------------------------------------------------------------
(* RiskManager.evaluateOpportunity as one function of its arguments, the   *)
(* stored configuration and what its collaborators answer.                 *)

\* `riskAssessment.reason = reason; return riskAssessment`
rejected(reason) == [NewAssessment EXCEPT !.reason = reason]

\* r.failedAt: the method whose storage read or lookup throws ("none": none
\* does); r.conditions: getMarketConditions; r.exposure: getCurrentExposure;
\* r.pv: getTotalPortfolioValue; r.volatility: getAssetVolatility; r.kelly: the
\* trading statistics; r.usable: the platforms that are healthy and support
\* the symbol; correlations: the list checkCorrelationRisk builds from
\* getCurrentPositions and getCorrelation
evaluateOpportunity(config, a, sym, r, correlations) ==
    IF r.failedAt = "isSymbolAllowed" THEN catchEvaluate.assessment
    ELSE IF ~isSymbolAllowed(config, sym)
       THEN rejected("Symbol not in allowed trading list")
    ELSE
    LET marketFailed == r.failedAt = "assessMarketConditions"
        marketLevel == assessMarketConditions(r.conditions, marketFailed)
        exposureCheck == checkPortfolioExposure(
                            config, r.failedAt # "checkPortfolioExposure", r.exposure, sym)
        kelly == calculateKellyPosition(r.kelly[1], r.kelly[2], r.kelly[3],
                                        r.failedAt = "calculateKellyPosition")
        positionSize == calculatePositionSize(
                            config, r.failedAt # "calculatePositionSize", a, r.pv,
                            r.volatility, marketLevel, kelly).size
        correlationLevel == checkCorrelationRisk(
                                correlations, r.failedAt = "checkCorrelationRisk")
        approvedPlatforms == assessPlatformRisk(config, r.usable)
        riskLevel == calculateRiskLevel(a, r.exposure.total, correlationLevel)
    IN  IF marketLevel = "EXTREME"
           THEN rejected("Extreme market conditions detected")
        ELSE IF ~exposureCheck.allowed THEN rejected(exposureCheck.reason)
        ELSE IF ~a.wellFormed THEN catchEvaluate.assessment
        ELSE IF qualityTooLow(assessSignalQuality(a))
           THEN rejected("Signal quality too low for trading")
        ELSE IF tooSmallToTrade(positionSize)
           THEN rejected("Calculated position size too small to trade")
        ELSE IF correlationLevel = "HIGH"
           THEN rejected("High correlation with existing positions")
        ELSE IF r.failedAt = "assessPlatformRisk" THEN catchEvaluate.assessment
        ELSE IF approvedPlatforms = {}
           THEN rejected("No approved platforms for this trade")
        ELSE [approved |-> TRUE, recommendedSize |-> positionSize, reason |-> "",
              riskLevel |-> riskLevel, approvedPlatforms |-> approvedPlatforms,
              conditions |-> getTradeConditions(a, riskLevel)]

\* the methods of evaluateOpportunity that read storage or look something up
FailureSites ==
    {"none", "isSymbolAllowed", "assessMarketConditions", "checkPortfolioExposure",
     "calculatePositionSize", "calculateKellyPosition", "checkCorrelationRisk",
     "assessPlatformRisk"}

\* what the collaborators of one evaluation answer, getCorrelation apart
Responses ==
    [failedAt : FailureSites,
     conditions : {MockConditions,
                   [MockConditions EXCEPT !.volatility = 45, !.majorEvents = 1]},
     exposure : {[total |-> 0, asset |-> 0, sector |-> 0],
                 [total |-> 85, asset |-> 1, sector |-> 35]},
     pv : {1000},
     volatility : {3},
     kelly : {<<55, 3, 2>>},
     usable : {{}, PlatformNames}]

\* the exposures of the open positions getCurrentPositions may list: up to
\* MaxPositions positions of 0.12 each
OpenPositions == {[i \in 1..k |-> 12] : k \in 0..MaxPositions}

\* what getCorrelation may return for one pair (tenths): it is
\* `Math.random() * 2 - 1`, any value of [-1, 1), whatever the symbols
RandomCorrelations == {5, 8}

\* the correlations list of checkCorrelationRisk for the given positions: one
\* getCorrelation result for each
CorrelationLists(positions) ==
    {[i \in 1..Len(positions) |->
        [correlation |-> cs[i], exposure |-> positions[i]]] :
     cs \in [1..Len(positions) -> RandomCorrelations]}

\* an analysis whose signal-quality score is exactly 0.6
BoundaryAnalysis ==
    [confidence |-> 6, signal |-> "BUY", wellFormed |-> TRUE,
     has |-> {"technical", "sentiment", "machineLearning"},
     technical |-> 6, sentiment |-> 6, machineLearning |-> 6, mlVolatility |-> "LOW"]

\* the arguments of an evaluateOpportunity call, with the stored configuration,
\* the open positions and the collaborators' answers
EvaluationInputs ==
    [config : {[DefaultConfig({"binance"}) EXCEPT !.maxPositionSize = 10],
               [DefaultConfig({"binance"}) EXCEPT !.minTradeValue = 100],
               NoConfig},
     analysis : Analyses \cup {BoundaryAnalysis},
     symbol : {"BTC"},
     responses : Responses,
     positions : OpenPositions]

\* evaluateOpportunity is called twice on the same arguments, configuration,
\* positions and answers; each call asks getCorrelation for itself
EvaluateTwice ==
    /\ fn = "evaluateOpportunity"
    /\ ~ret.done
    /\ \E c1, c2 \in CorrelationLists(args.positions) :
          ret' = Returned(
                   [first |-> evaluateOpportunity(args.config, args.analysis,
                                                  args.symbol, args.responses, c1),
                    firstCorrelations |-> c1,
                    second |-> evaluateOpportunity(args.config, args.analysis,
                                                   args.symbol, args.responses, c2),
                    secondCorrelations |-> c2])
    /\ UNCHANGED <<fn, args, evalVars, valVars, workerVars, utilVars, adapterVars, popupVars, retryVars, mlVars>>

\* the arguments of checkPortfolioExposure with the stored configuration and
\* the exposures getCurrentExposure computes (percent): below, at and above
\* each cap
ExposureInputs ==
    [config : {NoConfig,
               DefaultConfig({"binance"}),
               [DefaultConfig({"binance"}) EXCEPT !.maxPositionSize = 10,
                                                  !.maxSectorExposure = 0]},
     storageOk : BOOLEAN,
     cur : [total : {0, 50, 80, 85}, asset : {0, 2, 5, 15}, sector : {0, 30, 35}],
     symbol : Symbols]

\* checkPortfolioExposure(symbol) returns
CallCheckPortfolioExposure ==
    /\ fn = "checkPortfolioExposure"
    /\ ~ret.done
    /\ ret' = Returned(checkPortfolioExposure(args.config, args.storageOk,
                                              args.cur, args.symbol))
    /\ UNCHANGED <<fn, args, evalVars, valVars, workerVars, utilVars, adapterVars, popupVars, retryVars, mlVars>>

\* the entries of the correlations list: a correlation below, at and above the
\* threshold (tenths), an exposure (percent)
CorrelationEntries == [correlation : {-9, 7, 8}, exposure : {5, 10, 12}]

\* the correlations checkCorrelationRisk collects, or the failure of a lookup
CorrelationInputs ==
    [correlations : SeqsUpTo(CorrelationEntries, MaxPositions), failed : BOOLEAN]

\* checkCorrelationRisk(symbol) returns (its catch reports a total of 0)
CallCheckCorrelationRisk ==
    /\ fn = "checkCorrelationRisk"
    /\ ~ret.done
    /\ ret' = Returned(
                 [level |-> checkCorrelationRisk(args.correlations, args.failed),
                  totalCorrelatedExposure |->
                      IF args.failed THEN 0
                      ELSE totalCorrelatedExposure(args.correlations)])
    /\ UNCHANGED <<fn, args, evalVars, valVars, workerVars, utilVars, adapterVars, popupVars, retryVars, mlVars>>

\* what getMarketConditions may answer (volatility and liquidity in percent,
\* around their thresholds; the number of major events), or its failure
MarketInputs ==
    [conditions : [volatility : {20, 25, 26, 40, 41},
                   majorEvents : {0, 1, 2},
                   isMarketHours : BOOLEAN,
                   liquidityScore : {30, 50, 80}],
     failed : BOOLEAN]

\* analyses with any of the three sub-analyses present or absent (confidences
\* in tenths)
QualityInputs ==
    [confidence : 0..10, signal : {"BUY"}, wellFormed : {TRUE},
     has : SUBSET {"technical", "sentiment", "machineLearning"},
     technical : {0, 6, 10}, sentiment : {0, 6, 10}, machineLearning : {0, 6, 10},
     mlVolatility : {"LOW"}]

\* assessSignalQuality(analysis) returns
CallAssessSignalQuality ==
    /\ fn = "assessSignalQuality"
    /\ ~ret.done
    /\ ret' = Returned(assessSignalQuality(args))
    /\ UNCHANGED <<fn, args, evalVars, valVars, workerVars, utilVars, adapterVars, popupVars, retryVars, mlVars>>

\* the arguments of a calculatePositionSize call with what it reads: the
\* stored configuration (minimum trade value absent, 10, 200 or 1000 dollars),
\* the portfolio value, the asset's volatility, the market level and the
\* Kelly fraction
SizeInputs ==
    [config : {[DefaultConfig({"binance"}) EXCEPT !.maxPositionSize = mps,
                                                  !.minTradeValue = mtv,
                                                  !.useKellyCriterion = k]
                 : mps \in {2, 10}, mtv \in {0, 1, 20, 100}, k \in BOOLEAN}
              \cup {NoConfig},
     storageOk : BOOLEAN,
     analysis : Analyses,
     pv : PortfolioValues,
     volatility : AssetVolatilities,
     level : {"LOW", "HIGH"},
     kelly : {Rat(0, 1), Rat(5, 100)}]

\* calculatePositionSize(analysis, symbol) returns
CallCalculatePositionSize ==
    /\ fn = "calculatePositionSize"
    /\ ~ret.done
    /\ ret' = Returned(calculatePositionSize(args.config, args.storageOk,
                                             args.analysis, args.pv,
                                             args.volatility, args.level, args.kelly))
    /\ UNCHANGED <<fn, args, evalVars, valVars, workerVars, utilVars, adapterVars, popupVars, retryVars, mlVars>>

\* the statistics a calculateKellyPosition call may read, or the failure of
\* a lookup: those of KellyStatistics, and a win rate of 100 % with an
\* average win of 3 % and of 0
KellyInputs ==
    [statistics : KellyStatistics \cup {<<100, 3, 2>>, <<100, 0, 2>>},
     failed : BOOLEAN]

\* calculateKellyPosition(analysis, symbol) returns
CallCalculateKellyPosition ==
    /\ fn = "calculateKellyPosition"
    /\ ~ret.done
    /\ ret' = Returned(calculateKellyPosition(args.statistics[1], args.statistics[2],
                                              args.statistics[3], args.failed))
    /\ UNCHANGED <<fn, args, evalVars, valVars, workerVars, utilVars, adapterVars, popupVars, retryVars, mlVars>>

\* assessMarketConditions() returns
CallAssessMarketConditions ==
    /\ fn = "assessMarketConditions"
    /\ ~ret.done
    /\ ret' = Returned(assessMarketConditions(args.conditions, args.failed))
    /\ UNCHANGED <<fn, args, evalVars, valVars, workerVars, utilVars, adapterVars, popupVars, retryVars, mlVars>>

\* TradingEngine.executeTrade(tradeParams): createOrder is called, with the
\* quantity of tradeParams, on every target platform that has a connection;
\* the targets are tradeParams.platforms or, without them, the connected
\* platforms getPlatformsForSymbol finds (all of them for a crypto symbol)
engineExecuteTrade(tradeParams, connected) ==
    LET targetPlatforms == IF tradeParams.hasPlatforms
                              THEN tradeParams.platforms ELSE connected
    IN  {[platform |-> p, symbol |-> tradeParams.symbol, side |-> tradeParams.side,
          quantity |-> tradeParams.quantity] : p \in targetPlatforms \cap connected}

\* a faulty variant: the signal is not looked at
shouldExecuteAnySignal(riskCheck, a) == riskCheck.approved

\* performTradingAnalysis: `riskCheck.approved && analysis.signal !== 'HOLD'`
shouldExecute(riskCheck, a) == riskCheck.approved /\ a.signal # "HOLD"

\* AITradingService.executeTrade: the tradeParams built from the analysis and
\* riskCheck
tradeParamsOf(a, sym, riskCheck) ==
    [symbol |-> sym, side |-> a.signal, quantity |-> riskCheck.recommendedSize,
     hasPlatforms |-> TRUE, platforms |-> riskCheck.approvedPlatforms]

\* the loop body of performTradingAnalysis for one symbol, from the analysis
\* on: the orders it has the trading engine send
analyzeSymbol(a, sym, riskCheck, connected) ==
    IF shouldExecute(riskCheck, a)
       THEN engineExecuteTrade(tradeParamsOf(a, sym, riskCheck), connected)
       ELSE {}

\* AITradingService.executeManualTrade(trade) with the riskCheck
\* evaluateManualTrade returned
executeManualTrade(trade, riskCheck, connected) ==
    IF ~riskCheck.approved
       THEN [threw |-> TRUE, error |-> riskCheck.reason, orders |-> {}]
       ELSE [threw |-> FALSE, error |-> "",
             orders |-> engineExecuteTrade(trade, connected)]

\* evaluateManualTrade: the mockAnalysis with the side of the trade
mockAnalysis(side) ==
    [confidence |-> 7, signal |-> side, wellFormed |-> TRUE,
     has |-> {"technical", "sentiment", "machineLearning"},
     technical |-> 6, sentiment |-> 5, machineLearning |-> 5, mlVolatility |-> "MEDIUM"]

\* the answers of the collaborators of the evaluation behind a trade
TradeResponses ==
    [failedAt : {"none"},
     conditions : {MockConditions},
     exposure : {[total |-> 0, asset |-> 0, sector |-> 0],
                 [total |-> 79, asset |-> 9, sector |-> 0],
                 [total |-> 85, asset |-> 1, sector |-> 35]},
     pv : {1000},
     volatility : {3},
     kelly : {<<55, 3, 2>>},
     usable : {{}, {"binance"}, PlatformNames}]

\* one symbol of an analysis pass: the analysis with any signal, the stored
\* configuration, the answers and the platforms the engine is connected to
AnalysisInputs ==
    [analysis : {[a EXCEPT !.signal = sg] :
                    a \in {x \in Analyses : x.wellFormed}, sg \in {"BUY", "SELL", "HOLD"}},
     symbol : {"BTC"},
     config : {[DefaultConfig(PlatformNames) EXCEPT !.maxPositionSize = 10]},
     responses : TradeResponses,
     connected : SUBSET PlatformNames]

\* performTradingAnalysis handles one symbol
CallAnalyzeSymbol ==
    /\ fn = "performTradingAnalysis"
    /\ ~ret.done
    /\ LET riskCheck == evaluateOpportunity(args.config, args.analysis, args.symbol,
                                            args.responses, <<>>)
       IN  ret' = Returned([riskCheck |-> riskCheck,
                            orders |-> analyzeSymbol(args.analysis, args.symbol,
                                                     riskCheck, args.connected)])
    /\ UNCHANGED <<fn, args, evalVars, valVars, workerVars, utilVars, adapterVars, popupVars, retryVars, mlVars>>

\* the trade of an EXECUTE_MANUAL_TRADE message: the form's symbol, side,
\* quantity (1 % or 50 % of the portfolio) and, possibly, platforms
ManualTradeInputs ==
    [trade : [symbol : {"BTC"}, side : {"BUY", "SELL"},
              quantity : {Rat(1, 100), Rat(50, 100)},
              hasPlatforms : BOOLEAN, platforms : {{"binance"}, {"coinbase"}}],
     config : {[DefaultConfig({"binance"}) EXCEPT !.maxPositionSize = 10]},
     responses : TradeResponses,
     connected : SUBSET PlatformNames]

\* executeManualTrade(trade) returns or throws
CallExecuteManualTrade ==
    /\ fn = "executeManualTrade"
    /\ ~ret.done
    /\ LET riskCheck == evaluateOpportunity(args.config, mockAnalysis(args.trade.side),
                                            args.trade.symbol, args.responses, <<>>)
           outcome == executeManualTrade(args.trade, riskCheck, args.connected)
       IN  ret' = Returned([riskCheck |-> riskCheck, threw |-> outcome.threw,
                            error |-> outcome.error, orders |-> outcome.orders])
    /\ UNCHANGED <<fn, args, evalVars, valVars, workerVars, utilVars, adapterVars, popupVars, retryVars, mlVars>>

\* the id of the order a platform creates (each platform numbers its own)
orderIdOf(platform) ==
    CHOOSE i \in 1..Len(AllPlatforms) : AllPlatforms[i] = platform

\* a faulty variant: a target without a connection ends the loop
orderOnStopping(platform, connected, rejecting) ==
    IF platform \notin connected
       THEN [result |-> [platform |-> platform, success |-> FALSE, orderId |-> 0,
                         error |-> "No connection to platform"],
             submitted |-> <<>>, threw |-> FALSE, goesOn |-> FALSE]
    ELSE IF platform \in rejecting
       THEN [result |-> [platform |-> platform, success |-> FALSE, orderId |-> 0,
                         error |-> "Order rejected"],
             submitted |-> <<platform>>, threw |-> FALSE, goesOn |-> TRUE]
    ELSE [result |-> [platform |-> platform, success |-> TRUE,
                      orderId |-> orderIdOf(platform), error |-> ""],
          submitted |-> <<platform>>, threw |-> FALSE, goesOn |-> TRUE]

\* one round of the loop of TradingEngine.executeTrade: without a connection a
\* failure result is pushed (`continue`); else createOrder is called, and its
\* order gives a success result, its exception (caught) a failure result
orderOn(platform, connected, rejecting) ==
    IF platform \notin connected
       THEN [result |-> [platform |-> platform, success |-> FALSE, orderId |-> 0,
                         error |-> "No connection to platform"],
             submitted |-> <<>>, threw |-> FALSE, goesOn |-> TRUE]
    ELSE IF platform \in rejecting
       THEN [result |-> [platform |-> platform, success |-> FALSE, orderId |-> 0,
                         error |-> "Order rejected"],
             submitted |-> <<platform>>, threw |-> FALSE, goesOn |-> TRUE]
    ELSE [result |-> [platform |-> platform, success |-> TRUE,
                      orderId |-> orderIdOf(platform), error |-> ""],
          submitted |-> <<platform>>, threw |-> FALSE, goesOn |-> TRUE]

\* TradingEngine.executeTrade from target i on: the results pushed, the
\* platforms createOrder was called on, whether an exception left the call
RECURSIVE executeTradeFrom(_, _, _, _)
executeTradeFrom(i, targetPlatforms, connected, rejecting) ==
    IF i > Len(targetPlatforms)
       THEN [results |-> <<>>, submitted |-> <<>>, threw |-> FALSE]
    ELSE LET round == orderOn(targetPlatforms[i], connected, rejecting)
             rest == IF round.goesOn /\ ~round.threw
                        THEN executeTradeFrom(i + 1, targetPlatforms, connected, rejecting)
                        ELSE [results |-> <<>>, submitted |-> <<>>, threw |-> round.threw]
         IN  [results |-> <<round.result>> \o rest.results,
              submitted |-> round.submitted \o rest.submitted,
              threw |-> rest.threw]

\* the targets of an executeTrade call (tradeParams.platforms), the platforms
\* with a connection and those whose createOrder throws
EngineInputs ==
    [targetPlatforms : SeqsUpTo(PlatformNames, MaxPlatforms),
     connected : SUBSET PlatformNames,
     rejecting : SUBSET PlatformNames]

\* TradingEngine.executeTrade(tradeParams) returns
CallEngineExecuteTrade ==
    /\ fn = "TradingEngine.executeTrade"
    /\ ~ret.done
    /\ ret' = Returned(executeTradeFrom(1, args.targetPlatforms, args.connected,
                                        args.rejecting))
    /\ UNCHANGED <<fn, args, evalVars, valVars, workerVars, utilVars, adapterVars, popupVars, retryVars, mlVars>>

\* AITradingService.executeTrade: the results of the engine, and
\* activePositions once every successful result is set under its orderId
trackResults(positions, results) ==
    LET opened == {[orderId |-> results[i].orderId, platform |-> results[i].platform,
                    status |-> "OPEN"] : i \in {j \in 1..Len(results) : results[j].success}}
    IN  {p \in positions : \A q \in opened : q.orderId # p.orderId} \cup opened

\* AITradingService.closeAllPositions: closePosition throws without a
\* connection or when the closing order is rejected, and the position stays;
\* else the position is deleted
closeAllPositions(positions, connected, rejecting) ==
    {p \in positions : p.platform \notin connected \/ p.platform \in rejecting}

\* what an operation of the service worker makes of activePositions, with the
\* results the engine returned to it.  executeManualTrade hands the results
\* to handleMessage, which sends them in the response.
serviceOperation(operation, positions, targetPlatforms, connected, rejecting) ==
    CASE operation = "executeTrade" ->
           LET results == executeTradeFrom(1, targetPlatforms, connected, rejecting).results
           IN  [results |-> results, activePositions |-> trackResults(positions, results)]
      [] operation = "executeManualTrade" ->
           LET results == executeTradeFrom(
                             1, SelectSeq(targetPlatforms, LAMBDA p : p \in connected),
                             connected, rejecting).results
           IN  [results |-> results, activePositions |-> positions]
      [] operation = "closeAllPositions" ->
           [results |-> <<>>,
            activePositions |-> closeAllPositions(positions, connected, rejecting)]

\* the positions tracked before an operation (orders of earlier trades), the
\* operation, and the engine's targets, connections and rejections
ServiceInputs ==
    [operation : {"executeTrade", "executeManualTrade", "closeAllPositions"},
     positions : SUBSET {[orderId |-> 10 + orderIdOf(p), platform |-> p, status |-> "OPEN"] :
                            p \in PlatformNames},
     targetPlatforms : SeqsUpTo(PlatformNames, MaxPlatforms),
     connected : SUBSET PlatformNames,
     rejecting : SUBSET PlatformNames]

\* an operation of the service worker on activePositions is over
CallServiceOperation ==
    /\ fn = "AITradingService"
    /\ ~ret.done
    /\ ret' = Returned(serviceOperation(args.operation, args.positions,
                                        args.targetPlatforms, args.connected,
                                        args.rejecting))
    /\ UNCHANGED <<fn, args, evalVars, valVars, workerVars, utilVars, adapterVars, popupVars, retryVars, mlVars>>

\* the message types the popup sends (every sendMessage call of the popup)
PopupMessageTypes ==
    {"START_TRADING", "STOP_TRADING", "EMERGENCY_STOP", "GET_STATUS", "UPDATE_CONFIG",
     "GET_POSITIONS", "GET_ANALYTICS", "GET_MARKET_DATA", "EXECUTE_MANUAL_TRADE",
     "CLOSE_POSITION", "TEST_PLATFORM_CONNECTION"}

\* the cases of the switch of handleMessage
MessageCases ==
    {"START_TRADING", "STOP_TRADING", "GET_STATUS", "UPDATE_CONFIG", "GET_POSITIONS",
     "EXECUTE_MANUAL_TRADE", "GET_MARKET_DATA"}

\* the trade collectTradeFormData builds: it has a `platform`, no `platforms`
FormTrade ==
    [symbol |-> "BTC", side |-> "BUY", quantity |-> Rat(1, 100),
     hasPlatforms |-> FALSE, platforms |-> {}]

\* what the operation awaited in a case of handleMessage does: it throws
\* (error: the message of the exception) or returns, and failures are the
\* errors it met, those it caught and logged itself included.  env is the
\* state and the environment it runs in: isActive, whether the storage write
\* of updateConfig succeeds, closePositionsOnStop, whether closing a position
\* fails, whether evaluateManualTrade approves, the connected platforms,
\* whether a platform rejects the order, whether a market-data fetch fails.
awaitedOperation(message, env) ==
    LET returns(failures) == [threw |-> FALSE, error |-> "", failures |-> failures]
        throws(error) == [threw |-> TRUE, error |-> error, failures |-> {error}]
    IN  CASE message.type = "START_TRADING" ->
               IF env.isActive THEN throws("Trading is already active")
               ELSE IF validateConfig(message.config).outcome = "threw"
                  THEN throws("Configuration validation failed")
               ELSE IF ~env.saved THEN throws("Storage failure")
               ELSE returns({})
          [] message.type = "STOP_TRADING" ->
               returns(IF env.closePositionsOnStop /\ env.closeFailed
                          THEN {"Failed to close position"} ELSE {})
          [] message.type = "UPDATE_CONFIG" ->
               IF ~env.saved THEN throws("Storage failure") ELSE returns({})
          [] message.type = "EXECUTE_MANUAL_TRADE" ->
               LET riskCheck == IF env.approved
                                   THEN [rejected("") EXCEPT
                                           !.approved = TRUE,
                                           !.recommendedSize = Rat(1, 100),
                                           !.approvedPlatforms = {"binance"}]
                                   ELSE rejected("Signal quality too low for trading")
                   outcome == executeManualTrade(FormTrade, riskCheck, env.connected)
               IN  IF outcome.threw THEN throws(outcome.error)
                   ELSE returns(IF outcome.orders # {} /\ env.orderRejected
                                   THEN {"Failed to execute order"} ELSE {})
          [] message.type = "GET_MARKET_DATA" ->
               returns(IF env.dataFailed THEN {"Failed to get market data"} ELSE {})
          [] OTHER -> returns({})

\* AITradingService.handleMessage: the sendResponse calls it makes, in order,
\* and the errors the requested operation met
handleMessage(message, env) ==
    IF message.type \notin MessageCases
       THEN [responses |-> <<[success |-> FALSE, error |-> "Unknown message type"]>>,
             failures |-> {}]
    ELSE LET operation == awaitedOperation(message, env)
         IN  [responses |-> IF operation.threw
                               THEN <<[success |-> FALSE, error |-> operation.error]>>
                               ELSE <<[success |-> TRUE, error |-> ""]>>,
              failures |-> operation.failures]

\* the messages the worker may receive (one type no sender uses among them)
\* and the environments they are handled in
HandleMessageInputs ==
    [message : [type : PopupMessageTypes \cup {"PING"},
                config : {DefaultConfig({"binance"}), DefaultConfig({})}],
     env : [isActive : BOOLEAN, saved : BOOLEAN, closePositionsOnStop : BOOLEAN,
            closeFailed : BOOLEAN, approved : BOOLEAN,
            connected : {{}, {"binance"}}, orderRejected : BOOLEAN,
            dataFailed : BOOLEAN]]

\* handleMessage(message, sender, sendResponse) has finished
CallHandleMessage ==
    /\ fn = "handleMessage"
    /\ ~ret.done
    /\ ret' = Returned(handleMessage(args.message, args.env))
    /\ UNCHANGED <<fn, args, evalVars, valVars, workerVars, utilVars, adapterVars, popupVars, retryVars, mlVars>>

FunctionCalls ==
    {[fn |-> "evaluateOpportunity", args |-> i] : i \in EvaluationInputs}
    \cup {[fn |-> "handleMessage", args |-> i] : i \in HandleMessageInputs}
    \cup {[fn |-> "AITradingService", args |-> i] : i \in ServiceInputs}
    \cup {[fn |-> "TradingEngine.executeTrade", args |-> i] : i \in EngineInputs}
    \cup {[fn |-> "performTradingAnalysis", args |-> i] : i \in AnalysisInputs}
    \cup {[fn |-> "executeManualTrade", args |-> i] : i \in ManualTradeInputs}
    \cup {[fn |-> "assessMarketConditions", args |-> i] : i \in MarketInputs}
    \cup {[fn |-> "assessSignalQuality", args |-> i] : i \in QualityInputs}
    \cup {[fn |-> "calculatePositionSize", args |-> i] : i \in SizeInputs}
    \cup {[fn |-> "calculateKellyPosition", args |-> i] : i \in KellyInputs}
    \cup {[fn |-> "checkCorrelationRisk", args |-> i] : i \in CorrelationInputs}
    \cup {[fn |-> "checkPortfolioExposure", args |-> i] : i \in ExposureInputs}

InitFunctions ==
    /\ tradingConfig = NoConfig
    /\ EvalIdle
    /\ ValidateIdle
    /\ WorkerNew
    /\ \E call \in FunctionCalls : fn = call.fn /\ args = call.args
    /\ ret = Pending
    /\ UtilIdle
    /\ AdapterIdle
    /\ PopupIdle
    /\ RetryIdle
    /\ MlNew

NextFunctions ==
    \/ EvaluateTwice
    \/ CallCheckPortfolioExposure
    \/ CallCheckCorrelationRisk
    \/ CallAssessMarketConditions
    \/ CallAssessSignalQuality
    \/ CallCalculatePositionSize
    \/ CallCalculateKellyPosition
    \/ CallAnalyzeSymbol
    \/ CallExecuteManualTrade
    \/ CallHandleMessage
    \/ CallServiceOperation
    \/ CallEngineExecuteTrade

SpecFunctions == InitFunctions /\ [][NextFunctions]_vars

-----------------------------------------------------------------------------
(* ConfigManager.saveConfig and Logger.log as actions.  Every await of     *)
(* saveConfig and of storeLog is a step of its own; the ConfigManager logs *)
(* through its own Logger, which writes to the same console and storage.   *)

\* the value a configuration or a log datum holds in the field named key
valueOf(key) ==
    CASE key = "apiKey" -> "value of apiKey"
      [] key = "api_key" -> "value of api_key"
      [] key = "apiSecret" -> "value of apiSecret"
      [] key = "api_secret" -> "value of api_secret"
      [] key = "password" -> "value of password"
      [] key = "token" -> "value of token"
      [] key = "secret" -> "value of secret"
      [] key = "private_key" -> "value of private_key"
      [] key = "privateKey" -> "value of privateKey"
      [] key = "signature" -> "value of signature"
      [] key = "symbol" -> "BTC"
      [] key = "name" -> "binance"

\* where a field may sit: at the top of the object, inside a nested object,
\* or inside the first entry of the platforms list
FieldPrefixes == {<<>>, <<"credentials">>, <<"platforms", "0">>}

\* the leaves a configuration may carry under the five sensitive names
ConfigSecrets ==
    {[path |-> Append(p, key), value |-> valueOf(key)] :
        p \in FieldPrefixes, key \in configSensitiveKeys}

\* the configurations saveConfig may be given: one binance platform entry,
\* riskSettings absent, valid or out of range, and no secret, one secret, or
\* an apiKey and apiSecret in the platform entry; or no argument (null)
ConfigArgs ==
    {[isNull |-> FALSE, risk |-> r,
      entries |-> {[path |-> <<"platforms", "0", "name">>, value |-> valueOf("name")]}
                  \cup secrets] :
        r \in {"absent", "valid", "tooLarge"},
        secrets \in {{}} \cup {{s} : s \in ConfigSecrets}
                    \cup {{[path |-> <<"platforms", "0", key>>, value |-> valueOf(key)] :
                             key \in {"apiKey", "apiSecret"}}}}
    \cup {NullConfig}

\* Logger.log(level, message, data) of the logger with the given context:
\* nothing above this.logLevel; otherwise the entry goes to this.logs, to the
\* console and into a storeLog call
Log(context, level, message, data) ==
    LET entry == logEntry(context, level, message, data)
    IN  IF levels[level] > logLevel
           THEN UNCHANGED <<logs, consoleOut, storing, logCalls>>
           ELSE /\ logs' = [logs EXCEPT ![context] = LastN(Append(@, entry), maxLogs)]
                /\ consoleOut' = consoleOut \o consoleLines(entry)
                /\ storing' = storing \cup {[id |-> logCalls + 1, entry |-> entry,
                                             phase |-> "get", existingLogs |-> <<>>]}
                /\ logCalls' = logCalls + 1

\* an Error object as log data: it has no enumerable property
ErrorData == ObjectData({})

\* saveConfig(config) up to its first await: validation, separation, and
\* chrome.storage.local.set({ tradingConfig: publicConfig }), which may
\* reject; a throw is logged by the catch block and rethrown
SaveConfigCall ==
    /\ saveCall.pc = "idle"
    /\ saves < MaxSaves
    /\ saves' = saves + 1
    /\ \E c \in ConfigArgs, stored \in BOOLEAN :
          LET configToSave == IF c.isNull THEN thisConfig ELSE c
          IN  IF configErrors(configToSave) # <<>> \/ ~stored
                 THEN /\ saveCall' = [pc |-> "done", config |-> configToSave,
                                      result |-> "threw"]
                      /\ Log("ConfigManager", "ERROR", "Failed to save configuration:",
                             ErrorData)
                      /\ UNCHANGED localStorage
                 ELSE /\ localStorage' =
                            [localStorage EXCEPT !.tradingConfig =
                                [configToSave EXCEPT !.entries = publicConfig(@)]]
                      /\ saveCall' = [pc |-> "secrets", config |-> configToSave,
                                      result |-> "none"]
                      /\ UNCHANGED <<logs, consoleOut, storing, logCalls>>
    /\ UNCHANGED <<thisConfig, evalVars, valVars, workerVars, fnVars, adapterVars, popupVars, retryVars, mlVars>>

\* saveConfig after its first await: the sensitive data, if any, are stored
\* under 'encryptedSecrets' (the set may reject), this.config is replaced,
\* the success is logged and true returned
SaveConfigSecrets ==
    /\ saveCall.pc = "secrets"
    /\ \E stored \in BOOLEAN :
          LET sensitive == sensitiveData(saveCall.config.entries)
          IN  IF sensitive # {} /\ ~stored
                 THEN /\ saveCall' = [saveCall EXCEPT !.pc = "done", !.result = "threw"]
                      /\ Log("ConfigManager", "ERROR", "Failed to save configuration:",
                             ErrorData)
                      /\ UNCHANGED <<localStorage, thisConfig>>
                 ELSE /\ localStorage' =
                            IF sensitive = {} THEN localStorage
                            ELSE [localStorage EXCEPT
                                    !.encryptedSecrets = encryptSensitiveData(sensitive),
                                    !.hasSecrets = TRUE]
                      /\ thisConfig' = saveCall.config
                      /\ Log("ConfigManager", "INFO", "Configuration saved successfully",
                             NullData)
                      /\ saveCall' = [saveCall EXCEPT !.pc = "done", !.result = "true"]
    /\ UNCHANGED <<saves, evalVars, valVars, workerVars, fnVars, adapterVars, popupVars, retryVars, mlVars>>

\* the caller moves on; saveConfig may be called again
SaveConfigReturn ==
    /\ saveCall.pc = "done"
    /\ saveCall' = NoSave
    /\ UNCHANGED <<localStorage, thisConfig, saves, logs, consoleOut, storing, logCalls,
                   evalVars, valVars, workerVars, fnVars, adapterVars, popupVars, retryVars, mlVars>>

\* the data a caller may hand to Logger.log: none, or an object with one
\* field, at the top or inside the first entry of a list
LogData ==
    {NullData}
    \cup {ObjectData({[path |-> Append(p, key), value |-> valueOf(key)]}) :
            p \in {<<>>, <<"platforms", "0">>},
            key \in {"apiKey", "api_key", "apiSecret", "api_secret", "password",
                     "token", "secret", "private_key", "privateKey", "signature",
                     "symbol"}}

\* a caller logs through the default logger
LogCall ==
    /\ logCalls < MaxLogCalls
    /\ \E level \in {"ERROR", "INFO", "TRACE"}, data \in LogData :
          Log("AITrading", level, "message", data)
    /\ UNCHANGED <<localStorage, thisConfig, saveCall, saves,
                   evalVars, valVars, workerVars, fnVars, adapterVars, popupVars, retryVars, mlVars>>

\* console.error('Failed to store log:', error) of storeLog's catch block
storeFailedLine ==
    [level |-> "ERROR", context |-> "console", message |-> "Failed to store log:",
     data |-> ErrorData]

\* storeLog up to its second await: chrome.storage.local.get('tradingLogs')
StoreLogGet ==
    /\ \E s \in storing, read \in BOOLEAN :
          /\ s.phase = "get"
          /\ IF read
                THEN /\ storing' = (storing \ {s}) \cup
                            {[s EXCEPT !.phase = "set",
                                       !.existingLogs = localStorage.tradingLogs]}
                     /\ UNCHANGED consoleOut
                ELSE /\ storing' = storing \ {s}
                     /\ consoleOut' = Append(consoleOut, storeFailedLine)
    /\ UNCHANGED <<localStorage, thisConfig, saveCall, saves, logs, logCalls,
                   evalVars, valVars, workerVars, fnVars, adapterVars, popupVars, retryVars, mlVars>>

\* storeLog from its second await: the entry is pushed, the last 500 kept and
\* chrome.storage.local.set({ tradingLogs: existingLogs }) called
StoreLogSet ==
    /\ \E s \in storing, stored \in BOOLEAN :
          /\ s.phase = "set"
          /\ storing' = storing \ {s}
          /\ IF stored
                THEN /\ localStorage' =
                            [localStorage EXCEPT !.tradingLogs =
                                LastN(Append(s.existingLogs, s.entry), maxStoredLogs)]
                     /\ UNCHANGED consoleOut
                ELSE /\ consoleOut' = Append(consoleOut, storeFailedLine)
                     /\ UNCHANGED localStorage
    /\ UNCHANGED <<thisConfig, saveCall, saves, logs, logCalls,
                   evalVars, valVars, workerVars, fnVars, adapterVars, popupVars, retryVars, mlVars>>

InitConfig ==
    /\ tradingConfig = NoConfig
    /\ EvalIdle
    /\ ValidateIdle
    /\ WorkerNew
    /\ FnIdle
    /\ UtilIdle
    /\ AdapterIdle
    /\ PopupIdle
    /\ RetryIdle
    /\ MlNew

NextConfig ==
    \/ SaveConfigCall
    \/ SaveConfigSecrets
    \/ SaveConfigReturn
    \/ StoreLogGet
    \/ StoreLogSet

SpecConfig == InitConfig /\ [][NextConfig]_vars

NextLogger ==
    \/ LogCall
    \/ StoreLogGet
    \/ StoreLogSet

SpecLogger == InitConfig /\ [][NextLogger]_vars

-----------------------------------------------------------------------------
(* Claims about evaluateOpportunity, checked under Spec.                   *)

GateReasons(g) ==
    CASE g = "symbol" -> {"Symbol not in allowed trading list"}
      [] g = "market" -> {"Extreme market conditions detected"}
      [] g = "exposure" -> {"Total portfolio exposure exceeds limit",
                            "Exposure to symbol exceeds single asset limit",
                            "Exposure to sector exceeds limit",
                            "Portfolio exposure check failed"}
      [] g = "quality" -> {"Signal quality too low for trading"}
      [] g = "size" -> {"Calculated position size too small to trade"}
      [] g = "correlation" -> {"High correlation with existing positions"}
      [] g = "platform" -> {"No approved platforms for this trade"}

\* gate i of the call was evaluated and let the call through
GatePassed(i) ==
    CASE i = 1 -> isSymbolAllowed(tradingConfig, symbol)
      [] i = 2 -> obs.marketLevel \in {"LOW", "MEDIUM", "HIGH"}
      [] i = 3 -> riskAssessment.reason \notin GateReasons("exposure")
      [] i = 4 -> obs.score >= 60
      [] i = 5 -> obs.positionSize.n > 0
      [] i = 6 -> obs.correlationLevel # "HIGH"
      [] i = 7 -> riskAssessment.approvedPlatforms # {}

\* the exception of a gate reached the catch block of evaluateOpportunity
Escaped == obs.failed \cap {"symbol", "quality", "platform"} # {}

\* C1: the gates are evaluated in the fixed order symbol, market conditions,
\* exposure, signal quality, position size, correlation, platforms; a call that
\* is past gate i has passed gates 1..i; a call that ended without approval (and
\* without an exception) ended at the first gate that failed, with one of that
\* gate's reasons, and no later gate was evaluated; an approved call has
\* evaluated and passed all seven.
C1_GateOrder ==
    /\ Len(trail) <= 7
    /\ \A i \in 1..Len(trail) : trail[i] = Gates[i]
    /\ pc \notin {"idle", "done"} =>
          /\ Len(trail) < 7
          /\ pc = Gates[Len(trail) + 1]
          /\ \A i \in 1..Len(trail) : GatePassed(i)
    /\ (pc = "done" /\ ~Escaped) =>
          /\ \A i \in 1..(Len(trail) - 1) : GatePassed(i)
          /\ riskAssessment.approved => Len(trail) = 7 /\ GatePassed(7)
          /\ ~riskAssessment.approved =>
                /\ ~GatePassed(Len(trail))
                /\ riskAssessment.reason \in GateReasons(trail[Len(trail)])

\* C1 witness: a call rejected by the sixth gate, after five gates passed
C1_Witness ==
    /\ pc = "done"
    /\ Len(trail) = 6
    /\ riskAssessment.reason = "High correlation with existing positions"

RiskConfigBoundsHold(config) ==
    /\ config.hasRisk
    /\ config.missing = {}
    /\ config.maxPositionSize > 0 /\ config.maxPositionSize <= 10
    /\ config.maxDailyLoss > 0 /\ config.maxDailyLoss <= 5
    /\ config.maxTotalExposure > 0 /\ config.maxTotalExposure <= 100
    /\ config.stopLossPercentage > 0 /\ config.stopLossPercentage <= 10

\* C7: a call that finds a stored configuration with a bounded parameter out
\* of range, or with no riskSettings, does not approve.
C7_InvalidConfigNeverApproved ==
    (pc = "done" /\ ~RiskConfigBoundsHold(tradingConfig)) => ~riskAssessment.approved

\* C10 as stated: whenever a check of the call raised an exception, the call
\* returns the assessment of the catch block ('Risk evaluation failed').
C10_AnyExceptionGivesEvaluationFailed ==
    (pc = "done" /\ obs.failed # {}) => riskAssessment = FailedAssessment

\* C10 amended: no exception leaves evaluateOpportunity.  One that escapes its
\* gate (storage failing in isSymbolAllowed or assessPlatformRisk, an analysis
\* without its analysis part in assessSignalQuality) gives the assessment of the
\* catch block.  One raised in checkPortfolioExposure or calculatePositionSize
\* is caught there and gives a rejection with that gate's reason, approved =
\* false, size 0, riskLevel UNKNOWN and no platform.  One raised in
\* assessMarketConditions, checkCorrelationRisk or calculateKellyPosition is
\* caught there and replaced by a default (level HIGH, level UNKNOWN, a Kelly
\* fraction of 0.02), with which the evaluation goes on.
C10_NeverThrows ==
    /\ ~threw
    /\ "market" \in obs.failed => obs.marketLevel = "HIGH"
    /\ "correlation" \in obs.failed => obs.correlationLevel = "UNKNOWN"
    /\ ("kelly" \in obs.failed /\ obs.sizeConfigured) =>
          RatLe(obs.positionSize, Rat(2, 100))
    /\ pc = "done" =>
          /\ Escaped => riskAssessment = FailedAssessment
          /\ "exposure" \in obs.failed =>
                riskAssessment =
                  [NewAssessment EXCEPT !.reason = "Portfolio exposure check failed"]
          /\ "size" \in obs.failed =>
                riskAssessment =
                  [NewAssessment EXCEPT
                     !.reason = "Calculated position size too small to trade"]

\* C10 witness: the configuration has no riskSettings, the exposure check
\* raised a TypeError and the call returned the exposure gate's rejection
C10_Witness ==
    /\ pc = "done"
    /\ ~tradingConfig.hasRisk
    /\ "exposure" \in obs.failed
    /\ riskAssessment.reason = "Portfolio exposure check failed"

-----------------------------------------------------------------------------
(* Claims about RiskManager.validateConfig, checked under SpecValidate.    *)

\* parameter name of riskSettings lies in (0, hi]
InRange(config, name, hi) ==
    /\ name \notin config.missing
    /\ config[name] > 0
    /\ config[name] <= hi

\* the constraints on a configuration that the configuration violates
ViolatedConstraints(config) ==
    (IF ~config.hasRisk
        THEN {"riskSettings"}
        ELSE {n \in ParamNames :
                ~InRange(config, n,
                         CASE n = "maxPositionSize" -> 10
                           [] n = "maxDailyLoss" -> 5
                           [] n = "maxTotalExposure" -> 100
                           [] n = "stopLossPercentage" -> 10)})
    \cup (IF ~config.hasPlatforms \/ config.platforms = {} THEN {"platforms"} ELSE {})
    \cup (IF ~config.hasTrading THEN {"tradingSettings"} ELSE {})

\* C8: the error validateConfig throws has one entry for each constraint the
\* configuration violates, and validateConfig returns true only when the
\* configuration violates none.
C8_ListsEveryViolation ==
    /\ vResult.outcome = "threw" =>
          Len(vResult.errors) = Cardinality(ViolatedConstraints(vConfig))
    /\ vResult.outcome = "true" => ViolatedConstraints(vConfig) = {}

\* C9: validateConfig returns true exactly when the four parameters are present
\* and in range, at least one platform is configured and tradingSettings is
\* present, and throws in every other case.
C9_AcceptsExactlyValid ==
    vResult # NoResult =>
        (vResult.outcome = "true" <=>
            /\ RiskConfigBoundsHold(vConfig)
            /\ vConfig.hasPlatforms /\ vConfig.platforms # {}
            /\ vConfig.hasTrading)

-----------------------------------------------------------------------------
(* Claims about the service worker, checked under SpecWorker.              *)

\* the pass of alarm a is in the middle of evaluating a symbol: between its
\* request for the symbol's market data and the end of its trade execution
Evaluating(a) == tasks[a].pc \in {"marketData", "analyze", "evaluate", "execute"}

\* the symbol the pass of alarm a is at
SymbolOf(a) == managerConfig.watchlist[tasks[a].idx]

\* C4: no two analysis passes are evaluating the same symbol at the same
\* time: an alarm that fires while an earlier pass has not finished with a
\* symbol never starts an overlapping evaluation of that symbol.
C4_AtMostOneEvaluationPerSymbol ==
    \A a, b \in TradingAlarms :
        (a # b /\ Evaluating(a) /\ Evaluating(b)) => SymbolOf(a) # SymbolOf(b)

\* C5: an analysis pass submits an order only while trading is active: after
\* stopTrading has set isActive to false no order is submitted until a start
\* sets it again, also by a pass that was in progress at the stop.
C5_NoOrderWhileInactive == [][orders' # orders => isActive]_vars

\* C6: when the worker has answered an EMERGENCY_STOP message, the answer is a
\* success, trading is inactive and no tracked position is left open.
C6_EmergencyStopHalts ==
    (msg.type = "EMERGENCY_STOP" /\ msg.pc = "responded") =>
        /\ msg.success
        /\ ~isActive
        /\ activePositions = {}

-----------------------------------------------------------------------------
(* Claims about single methods, checked under SpecFunctions.               *)

\* C11: two evaluateOpportunity calls with the same analysis, symbol, stored
\* configuration, portfolio snapshot, open positions and collaborator answers
\* return identical assessments.
C11_Deterministic ==
    (fn = "evaluateOpportunity" /\ ret.done) => ret.value.first = ret.value.second

\* a percentage p (a whole number of percent) written with one decimal
OneDecimal(p) == [int |-> p, frac |-> 0]

\* the sector cap in force: maxSectorExposure, 0.3 when it is not configured
SectorCap(config) ==
    IF config.maxSectorExposure # 0 THEN config.maxSectorExposure ELSE 30

\* the rejection that names a cap and quotes the measured value and the limit
CapRejection(reason, measured, limit) ==
    [allowed |-> FALSE, failed |-> FALSE, reason |-> reason,
     shown |-> <<OneDecimal(measured), OneDecimal(limit)>>]

\* a checkPortfolioExposure call that read its configuration has returned
ExposureChecked ==
    /\ fn = "checkPortfolioExposure"
    /\ ret.done
    /\ args.storageOk
    /\ args.config.hasRisk

RECURSIVE ExposureAt(_, _)
ExposureAt(cs, I) ==
    IF I = {} THEN 0
    ELSE LET i == CHOOSE j \in I : TRUE
         IN  cs[i].exposure + ExposureAt(cs, I \ {i})

\* the exposure of the positions correlated above 0.7, either sign
CorrelatedAbove07(cs) ==
    ExposureAt(cs, {i \in 1..Len(cs) : cs[i].correlation > 7 \/ cs[i].correlation < -7})

\* the level the claim gives a correlated exposure (percent)
LevelOf(total) ==
    IF total > 30 THEN "HIGH" ELSE IF total > 15 THEN "MEDIUM" ELSE "LOW"

\* the reasons of the gates up to and including the correlation gate
ReasonsUpToCorrelation == UNION {GateReasons(Gates[i]) : i \in 1..6}

\* C13: checkCorrelationRisk sums the exposure of exactly the positions whose
\* |correlation| is above 0.7 and calls the sum HIGH above 0.3, MEDIUM above
\* 0.15, LOW otherwise; an evaluation whose correlation level is HIGH is not
\* approved, and ends with 'High correlation with existing positions' unless
\* an earlier gate has rejected it.
C13_CorrelationRisk ==
    /\ (fn = "checkCorrelationRisk" /\ ret.done /\ ~args.failed) =>
          /\ ret.value.totalCorrelatedExposure = CorrelatedAbove07(args.correlations)
          /\ ret.value.level = LevelOf(CorrelatedAbove07(args.correlations))
    /\ (/\ fn = "evaluateOpportunity" /\ ret.done
        /\ args.responses.failedAt = "none" /\ args.analysis.wellFormed
        /\ CorrelatedAbove07(ret.value.firstCorrelations) > 30) =>
          /\ ~ret.value.first.approved
          /\ ret.value.first.reason \in ReasonsUpToCorrelation

\* C13 witness: three positions of exposure 0.12, each correlated 0.8 with
\* the candidate, are rejected at the correlation gate
C13_Witness ==
    /\ fn = "evaluateOpportunity" /\ ret.done
    /\ ret.value.firstCorrelations =
          [i \in 1..3 |-> [correlation |-> 8, exposure |-> 12]]
    /\ ret.value.first = rejected("High correlation with existing positions")

\* the scale LOW < MEDIUM < HIGH < EXTREME
LevelRank(level) ==
    CASE level = "LOW" -> 1 [] level = "MEDIUM" -> 2
      [] level = "HIGH" -> 3 [] level = "EXTREME" -> 4

\* an assessMarketConditions call that got its conditions has returned
MarketAssessed ==
    /\ fn = "assessMarketConditions"
    /\ ret.done
    /\ ~args.failed

\* C14: with no other factor present, volatility in (0.25, 0.4] gives MEDIUM
\* and volatility above 0.4 gives HIGH; with at least one major event the
\* level is at least HIGH, and EXTREME when volatility alone gave HIGH.
C14_VolatilityAndEvents ==
    MarketAssessed =>
        LET c == args.conditions
        IN  /\ (c.majorEvents = 0 /\ c.isMarketHours /\ c.liquidityScore >= 50) =>
                  /\ (c.volatility > 25 /\ c.volatility <= 40) => ret.value = "MEDIUM"
                  /\ c.volatility > 40 => ret.value = "HIGH"
            /\ c.majorEvents > 0 =>
                  /\ LevelRank(ret.value) >= LevelRank("HIGH")
                  /\ c.volatility > 40 => ret.value = "EXTREME"

\* the level the same conditions give with sufficient liquidity
LevelFromOtherFactors ==
    assessMarketConditions([args.conditions EXCEPT !.liquidityScore = 50], FALSE)

\* one step up the scale, saturating at EXTREME
OneStepUp(level) ==
    CASE level = "LOW" -> "MEDIUM" [] level = "MEDIUM" -> "HIGH"
      [] level = "HIGH" -> "EXTREME" [] level = "EXTREME" -> "EXTREME"

\* C15: with liquidityScore below 0.5 the level is exactly one step above the
\* level the other factors give, saturating at EXTREME.
C15_LiquidityOneStep ==
    (MarketAssessed /\ args.conditions.liquidityScore < 50) =>
        ret.value = OneStepUp(LevelFromOtherFactors)

\* the contribution of a sub-analysis to the score: its confidence if it is
\* present, zero if it is absent (tenths)
SubConfidence(a, sub) ==
    IF sub \notin a.has THEN 0
    ELSE CASE sub = "technical" -> a.technical
           [] sub = "sentiment" -> a.sentiment
           [] sub = "machineLearning" -> a.machineLearning

\* 0.4*confidence + 0.3*technical + 0.2*sentiment + 0.1*prediction, capped at
\* 1.0 (hundredths)
WeightedScore(a) ==
    LET sum == 4 * a.confidence + 3 * SubConfidence(a, "technical")
               + 2 * SubConfidence(a, "sentiment")
               + 1 * SubConfidence(a, "machineLearning")
    IN  IF sum > 100 THEN 100 ELSE sum

\* the reasons of the gates before the signal-quality gate
ReasonsBeforeQuality == UNION {GateReasons(Gates[i]) : i \in 1..3}

\* C16: the signal-quality score is 0.4*confidence + 0.3*technical +
\* 0.2*sentiment + 0.1*prediction confidence capped at 1.0, an absent
\* sub-analysis counting zero; an evaluation that passed the earlier gates is
\* rejected with 'Signal quality too low for trading' exactly when the score
\* is below 0.6.
C16_SignalQuality ==
    /\ (fn = "assessSignalQuality" /\ ret.done) => ret.value = WeightedScore(args)
    /\ (/\ fn = "evaluateOpportunity" /\ ret.done
        /\ args.responses.failedAt = "none" /\ args.analysis.wellFormed
        /\ ret.value.first.reason \notin ReasonsBeforeQuality) =>
          (ret.value.first.reason = "Signal quality too low for trading"
             <=> WeightedScore(args.analysis) < 60)

\* C16 witness: an evaluation whose only sub-analysis is the technical one
\* reaches the signal-quality gate with score 0.26 and is rejected there
C16_Witness ==
    /\ fn = "evaluateOpportunity" /\ ret.done
    /\ args.responses.failedAt = "none"
    /\ args.analysis.has = {"technical"}
    /\ WeightedScore(args.analysis) = 26
    /\ ret.value.first = rejected("Signal quality too low for trading")

\* the position's monetary value, size fraction times portfolio value, is below
\* the minimum trade value the configuration carries
BelowConfiguredMinimum(config, size, pv) ==
    /\ config.hasRisk
    /\ config.minTradeValue # 0
    /\ size.n * pv < config.minTradeValue * size.d

\* the size fraction evaluateOpportunity computes from the answers r
SizeFraction(config, a, r) ==
    baseSize(config, a, r.volatility, assessMarketConditions(r.conditions, FALSE),
             calculateKellyPosition(r.kelly[1], r.kelly[2], r.kelly[3], FALSE))

\* the reasons of the gates before the position-size gate
ReasonsBeforeSize == UNION {GateReasons(Gates[i]) : i \in 1..4}

\* C17: a position whose monetary value is below the configured minimum trade
\* value gets size zero, and an evaluation that reaches the position-size gate
\* with it is rejected with 'Calculated position size too small to trade',
\* approved=false and recommendedSize=0, not with 'Risk evaluation failed'.
C17_TooSmallIsRejected ==
    /\ (/\ fn = "calculatePositionSize" /\ ret.done /\ args.storageOk
        /\ BelowConfiguredMinimum(
              args.config,
              baseSize(args.config, args.analysis, args.volatility, args.level,
                       args.kelly),
              args.pv)) =>
          ret.value = [size |-> Rat(0, 1), failed |-> FALSE]
    /\ (/\ fn = "evaluateOpportunity" /\ ret.done
        /\ args.responses.failedAt = "none" /\ args.analysis.wellFormed
        /\ BelowConfiguredMinimum(
              args.config,
              SizeFraction(args.config, args.analysis, args.responses),
              args.responses.pv)
        /\ ret.value.first.reason \notin ReasonsBeforeSize) =>
          /\ ret.value.first.reason = "Calculated position size too small to trade"
          /\ ~ret.value.first.approved
          /\ ret.value.first.recommendedSize = Rat(0, 1)

\* C17 witness: with a minimum trade value of 1000 dollars, a portfolio of
\* 10000 dollars and a size below 2 %, the evaluation is rejected as too small
C17_Witness ==
    /\ fn = "evaluateOpportunity" /\ ret.done
    /\ args.responses.failedAt = "none"
    /\ args.config.hasRisk /\ args.config.minTradeValue = 100
    /\ SizeFraction(args.config, args.analysis, args.responses).n > 0
    /\ ret.value.first = rejected("Calculated position size too small to trade")

\* (b*p - q)/b for b = avgWin/avgLoss, clamped to [0, 0.05]; the statistics
\* are <<winRate, avgWin, avgLoss>> in percent, avgWin and avgLoss positive
ClampedKelly(st) ==
    LET f == Rat(st[1] * st[2] - (100 - st[1]) * st[3], 100 * st[2])
    IN  IF f.n <= 0 THEN Rat(0, 1)
        ELSE IF RatLt(Rat(5, 100), f) THEN Rat(5, 100) ELSE f

\* the formula has a zero denominator or cannot be computed
KellyDegenerate == args.failed \/ args.statistics[3] = 0 \/ args.statistics[2] = 0

\* C18: calculateKellyPosition returns a finite value in [0, 0.05], the formula
\* (b*p - q)/b clamped to that range, and the fallback 0 when the average
\* loss is 0, the ratio b is 0 or a statistics lookup fails.
C18_KellyFiniteWithFallbackZero ==
    (fn = "calculateKellyPosition" /\ ret.done) =>
        /\ ~isNaN(ret.value)
        /\ RatLe(Rat(0, 1), ret.value) /\ RatLe(ret.value, Rat(5, 100))
        /\ IF KellyDegenerate
              THEN ret.value.n = 0
              ELSE /\ RatLe(ret.value, ClampedKelly(args.statistics))
                   /\ RatLe(ClampedKelly(args.statistics), ret.value)

-----------------------------------------------------------------------------
(* Claims about ConfigManager.saveConfig, checked under SpecConfig, and    *)
(* about Logger.log, checked under SpecLogger.                             *)

\* the elements of a sequence
Range(q) == {q[i] : i \in 1..Len(q)}

\* the values configuration c holds in fields named apiKey, apiSecret,
\* password, token or privateKey, at any depth
ApiKeyValues(c) ==
    {e.value : e \in {x \in c.entries :
                        x.path[Len(x.path)] \in
                          {"apiKey", "apiSecret", "password", "token", "privateKey"}}}

\* a saveConfig call has returned true
SaveSucceeded == saveCall.pc = "done" /\ saveCall.result = "true"

\* C19: after saveConfig(c) succeeds, the value stored under 'tradingConfig'
\* contains no value c holds in a field named apiKey, apiSecret, password,
\* token or privateKey, at any depth and inside the entries of the platforms
\* list; every such value is inside 'encryptedSecrets'.
C19_ApiKeysStoredSeparately ==
    SaveSucceeded =>
        /\ \A e \in localStorage.tradingConfig.entries :
              e.value \notin ApiKeyValues(saveCall.config)
        /\ \A v \in ApiKeyValues(saveCall.config) :
              /\ localStorage.hasSecrets
              /\ \E x \in localStorage.encryptedSecrets.encrypted.base64 : x.value = v

\* the values log data hold in fields with one of the ten secret names
LoggedSecretValues ==
    {"value of apiKey", "value of api_key", "value of apiSecret",
     "value of api_secret", "value of password", "value of token",
     "value of secret", "value of private_key", "value of privateKey",
     "value of signature"}

\* every entry Logger.log has recorded: in memory, on the console, in the
\* persisted tradingLogs or on its way there
RecordedEntries ==
    UNION {Range(logs[context]) : context \in DOMAIN logs}
    \cup Range(consoleOut)
    \cup Range(localStorage.tradingLogs)
    \cup {s.entry : s \in storing}

\* C20: no entry recorded by Logger.log, in memory, on the console or in the
\* persisted tradingLogs, contains in its data the value of a field named
\* apiKey, api_key, apiSecret, api_secret, password, token, secret,
\* private_key, privateKey or signature, at any depth.
C20_SecretsNeverLogged ==
    \A entry \in RecordedEntries :
        \A e \in entry.data.entries : e.value \notin LoggedSecretValues

-----------------------------------------------------------------------------
(* A platform adapter sending HTTP requests: CoinbaseAdapter.makeRequest    *)
(* and BinanceAdapter.makeRequest with the RateLimiter of BaseAdapter.     *)
(* Callers may call makeRequest at any instant and any number of times at  *)
(* one instant; a setTimeout fires at its due time or later.               *)

RECURSIVE SumOver(_, _)
SumOver(f, S) ==
    IF S = {} THEN 0
    ELSE LET t == CHOOSE x \in S : TRUE IN f[t] + SumOver(f, S \ {t})

\* RateLimiter.wait(): `this.requests.filter(time => now - time < this.interval)`
filterRequests(now) ==
    [t \in Times |-> IF t <= now /\ now - t < interval THEN requests[t] ELSE 0]

\* fetch() sends the request
Fetch == sent' = [sent EXCEPT ![clock] = @ + 1]

\* RateLimiter.wait() followed by the fetch of makeRequest, with the calls
\* asleep being stillAsleep: at the limit the call sleeps until the oldest
\* request leaves the window and then calls wait() again; otherwise it
\* records the request and makeRequest goes on to fetch
WaitThenFetch(stillAsleep) ==
    LET now == clock
        kept == filterRequests(now)
        length == SumOver(kept, Times)
    IN  IF length >= requestsPerSecond
           THEN LET oldestRequest == CHOOSE t \in Times :
                        kept[t] > 0 /\ \A u \in Times : kept[u] > 0 => t <= u
                    waitTime == interval - (now - oldestRequest)
                IN  /\ requests' = kept
                    /\ sleeping' = [stillAsleep EXCEPT ![now + waitTime] = @ + 1]
                    /\ UNCHANGED sent
           ELSE /\ requests' = [kept EXCEPT ![now] = @ + 1]
                /\ sleeping' = stillAsleep
                /\ Fetch

\* a caller calls makeRequest: CoinbaseAdapter awaits waitForRateLimit()
\* first, BinanceAdapter builds the request and fetches
MakeRequest ==
    /\ calls < MaxRequests
    /\ calls' = calls + 1
    /\ IF adapter = "coinbase"
          THEN WaitThenFetch(sleeping)
          ELSE Fetch /\ UNCHANGED <<requests, sleeping>>
    /\ UNCHANGED <<adapter, clock, evalVars, valVars, workerVars, fnVars, utilVars, popupVars, retryVars, mlVars>>

\* the setTimeout of a sleeping wait() fires and wait() runs again
TimerFires ==
    /\ \E t \in WakeTimes :
          /\ sleeping[t] > 0
          /\ t <= clock
          /\ WaitThenFetch([sleeping EXCEPT ![t] = @ - 1])
    /\ UNCHANGED <<adapter, clock, calls, evalVars, valVars, workerVars, fnVars, utilVars, popupVars, retryVars, mlVars>>

\* 500 ms pass
Tick ==
    /\ clock < MaxTime
    /\ clock' = clock + 1
    /\ UNCHANGED <<adapter, requests, sleeping, sent, calls,
                   evalVars, valVars, workerVars, fnVars, utilVars, popupVars, retryVars, mlVars>>

InitAdapter ==
    /\ tradingConfig = NoConfig
    /\ EvalIdle
    /\ ValidateIdle
    /\ WorkerNew
    /\ FnIdle
    /\ UtilIdle
    /\ adapter \in {"coinbase", "binance"}
    /\ AdapterNew
    /\ PopupIdle
    /\ RetryIdle
    /\ MlNew

NextAdapter ==
    \/ MakeRequest
    \/ TimerFires
    \/ Tick

SpecAdapter == InitAdapter /\ [][NextAdapter]_vars

\* the requests sent within the one-second window that starts at time t
SentInWindow(t) ==
    SumOver(sent, {u \in Times : t <= u /\ u < t + interval})

\* C21: every HTTP request of an adapter first waits on its rate limiter, so
\* no adapter, Coinbase or Binance, sends more than 10 requests within any
\* one-second window.
C21_AtMostTenPerSecond ==
    \A t \in Times : SentInWindow(t) <= 10

-----------------------------------------------------------------------------
(* Claims about the orders the service worker submits, checked under       *)
(* SpecFunctions.                                                          *)

\* the handling of one symbol by performTradingAnalysis is over
AutomatedDone == fn = "performTradingAnalysis" /\ ret.done

\* an executeManualTrade call has returned or thrown
ManualDone == fn = "executeManualTrade" /\ ret.done

\* C22: an automated trade is executed only when riskCheck.approved is true
\* and the signal is not HOLD; a manual trade whose assessment is not
\* approved raises an error carrying the rejection reason and sends no
\* order; so no order, for its symbol, goes without an approving assessment.
C22_NoOrderWithoutApproval ==
    /\ AutomatedDone =>
          /\ ret.value.orders # {} =>
                ret.value.riskCheck.approved /\ args.analysis.signal # "HOLD"
          /\ \A o \in ret.value.orders : o.symbol = args.symbol
    /\ ManualDone =>
          /\ ~ret.value.riskCheck.approved =>
                /\ ret.value.threw
                /\ ret.value.error = ret.value.riskCheck.reason
                /\ ret.value.orders = {}
          /\ ret.value.orders # {} => ret.value.riskCheck.approved
          /\ \A o \in ret.value.orders : o.symbol = args.trade.symbol

\* C22 witness: an approved assessment with signal HOLD sends no order
C22_Witness ==
    /\ AutomatedDone
    /\ ret.value.riskCheck.approved
    /\ args.analysis.signal = "HOLD"
    /\ args.connected # {}
    /\ ret.value.orders = {}

\* C23: every order submitted, automated or manual, has the quantity
\* recommendedSize of the assessment that approved it and goes to one of that
\* assessment's approvedPlatforms.
C23_OrdersFollowAssessment ==
    (AutomatedDone \/ ManualDone) =>
        \A o \in ret.value.orders :
            /\ o.quantity = ret.value.riskCheck.recommendedSize
            /\ o.platform \in ret.value.riskCheck.approvedPlatforms

\* an exposure (percent of the portfolio) plus a size (a fraction of it) stays
\* within a cap (percent)
WithinCap(exposure, size, cap) ==
    /\ ~isNaN(size)
    /\ exposure * size.d + 100 * size.n <= cap * size.d

\* C24: whenever evaluateOpportunity approves a trade, current total exposure
\* plus recommendedSize does not exceed maxTotalExposure, and the symbol's
\* current exposure plus recommendedSize does not exceed the single-asset cap
\* (maxPositionSize).
C24_ApprovalKeepsCaps ==
    (AutomatedDone /\ ret.value.riskCheck.approved) =>
        /\ WithinCap(args.responses.exposure.total,
                     ret.value.riskCheck.recommendedSize, args.config.maxTotalExposure)
        /\ WithinCap(args.responses.exposure.asset,
                     ret.value.riskCheck.recommendedSize, args.config.maxPositionSize)

-----------------------------------------------------------------------------
(* The popup's configuration actions and the worker's handling of the      *)
(* configuration: who writes 'tradingConfig' in storage.                   *)

\* TradingPopup.getDefaultConfig: no platform, none of the optional risk
\* settings
PopupDefaultConfig ==
    [DefaultConfig({}) EXCEPT !.minTradeValue = 0, !.maxTradeValue = 0,
                              !.maxSectorExposure = 0]

\* collectConfigFormData: the percentages typed into the form and whether the
\* watchlist field is empty
ConfigForms ==
    [maxPositionSize : {4, 15}, maxDailyLoss : {1, 6}, stopLossPercentage : {2, 50},
     watchlistEmpty : BOOLEAN]

\* TradingPopup.validateConfig(formData).valid
popupValidateConfig(form) ==
    /\ ~(form.maxPositionSize <= 0 \/ form.maxPositionSize > 10)
    /\ ~(form.maxDailyLoss <= 0 \/ form.maxDailyLoss > 5)
    /\ ~form.watchlistEmpty

\* `{ ...this.config, ...formData }` of saveConfig: riskSettings and
\* tradingSettings are replaced by those of the form (maxTotalExposure is the
\* literal 0.8), the platforms stay
formConfig(config, form) ==
    [config EXCEPT !.hasRisk = TRUE, !.missing = {},
                   !.maxPositionSize = form.maxPositionSize,
                   !.maxDailyLoss = form.maxDailyLoss,
                   !.stopLossPercentage = form.stopLossPercentage,
                   !.maxTotalExposure = 80,
                   !.useKellyCriterion = FALSE,
                   !.minTradeValue = 0, !.maxTradeValue = 0, !.maxSectorExposure = 0,
                   !.hasTrading = TRUE, !.allowedSymbols = {}, !.blockedSymbols = {}]

\* ConfigManager.deepMerge(target, source) on configurations: a setting the
\* source carries replaces the target's (arrays whole), any other stays
deepMerge(target, source) ==
    LET param(name) == IF source.hasRisk /\ name \notin source.missing
                          THEN source[name] ELSE target[name]
        optional(name) == IF source.hasRisk /\ source[name] # 0
                             THEN source[name] ELSE target[name]
    IN  [hasRisk |-> target.hasRisk \/ source.hasRisk,
         missing |-> IF ~source.hasRisk THEN target.missing
                     ELSE IF ~target.hasRisk THEN source.missing
                     ELSE target.missing \cap source.missing,
         maxPositionSize |-> param("maxPositionSize"),
         maxDailyLoss |-> param("maxDailyLoss"),
         maxTotalExposure |-> param("maxTotalExposure"),
         stopLossPercentage |-> param("stopLossPercentage"),
         useKellyCriterion |-> source.useKellyCriterion \/ target.useKellyCriterion,
         minTradeValue |-> optional("minTradeValue"),
         maxTradeValue |-> optional("maxTradeValue"),
         maxSectorExposure |-> optional("maxSectorExposure"),
         hasPlatforms |-> target.hasPlatforms \/ source.hasPlatforms,
         platforms |-> IF source.hasPlatforms THEN source.platforms ELSE target.platforms,
         hasTrading |-> target.hasTrading \/ source.hasTrading,
         allowedSymbols |-> IF source.allowedSymbols # {}
                               THEN source.allowedSymbols ELSE target.allowedSymbols,
         blockedSymbols |-> IF source.blockedSymbols # {}
                               THEN source.blockedSymbols ELSE target.blockedSymbols]

\* ConfigManager.validateConfig(config).valid: the four comparisons on
\* riskSettings, when the configuration has riskSettings
managerConfigValid(config) ==
    config.hasRisk =>
        /\ ~OutOfRange(config, "maxPositionSize", 10)
        /\ ~OutOfRange(config, "maxDailyLoss", 5)
        /\ ~OutOfRange(config, "maxTotalExposure", 100)
        /\ ~OutOfRange(config, "stopLossPercentage", 10)

\* ConfigManager.loadConfig: this.config once loaded
loadedConfig ==
    IF configManager.isLoaded THEN configManager.config
    ELSE IF tradingConfig = NoConfig THEN DefaultConfig({}) ELSE tradingConfig

\* ConfigManager.updateConfig(updates) from the given this.config: loads if
\* needed, merges, and saveConfig validates and stores the result, or throws
updateConfig(current, updates, saved) ==
    LET updatedConfig == deepMerge(current, updates)
        done == managerConfigValid(updatedConfig) /\ saved
    IN  [done |-> done,
         error |-> IF ~managerConfigValid(updatedConfig)
                      THEN "Configuration validation failed" ELSE "Storage failure",
         stored |-> IF done THEN updatedConfig ELSE tradingConfig,
         manager |-> [isLoaded |-> TRUE,
                      config |-> IF done THEN updatedConfig ELSE current]]

\* the variables of the evaluation and of the worker that no popup action and
\* no configuration update touches
callVars == <<pc, analysis, symbol, trail, obs, riskAssessment, threw>>
serviceVars == <<managerConfig, activePositions, orders, tasks>>

\* the popup's sendMessage of a message carrying this.config
PopupSend(type, config) ==
    /\ msg.pc \in {"none", "responded"}
    /\ msg' = [NoMessage EXCEPT !.type = type, !.pc = "received",
                                !.config = [risk |-> config,
                                            closePositionsOnStop |-> FALSE]]

\* the popup is opened: loadConfig reads storage
PopupOpen ==
    /\ ~popup.open
    /\ popup' = [open |-> TRUE,
                 config |-> IF tradingConfig = NoConfig
                               THEN PopupDefaultConfig ELSE tradingConfig]
    /\ UNCHANGED <<configManager, evalVars, valVars, workerVars, fnVars, utilVars, adapterVars, retryVars, mlVars>>

\* the popup is closed
PopupClose ==
    /\ popup.open
    /\ popup' = [open |-> FALSE, config |-> NoConfig]
    /\ UNCHANGED <<configManager, evalVars, valVars, workerVars, fnVars, utilVars, adapterVars, retryVars, mlVars>>

\* TradingPopup.saveConfig: an invalid form is refused; a valid one is merged
\* into this.config, written to storage and sent as UPDATE_CONFIG
PopupSaveConfig ==
    /\ popup.open
    /\ msg.pc \in {"none", "responded"}
    /\ \E form \in ConfigForms :
          IF ~popupValidateConfig(form)
             THEN UNCHANGED <<popup, tradingConfig, msg>>
             ELSE /\ popup' = [popup EXCEPT !.config = formConfig(popup.config, form)]
                  /\ tradingConfig' = popup'.config
                  /\ PopupSend("UPDATE_CONFIG", popup'.config)
    /\ UNCHANGED <<configManager, callVars, isActive, serviceVars, valVars, fnVars, utilVars, adapterVars, retryVars, mlVars>>

\* TradingPopup.resetConfig
PopupResetConfig ==
    /\ popup.open
    /\ popup' = [popup EXCEPT !.config = PopupDefaultConfig]
    /\ tradingConfig' = PopupDefaultConfig
    /\ UNCHANGED <<configManager, callVars, valVars, workerVars, fnVars, utilVars, adapterVars, retryVars, mlVars>>

\* TradingPopup.addPlatform up to its await: TEST_PLATFORM_CONNECTION is sent
PopupAddPlatform ==
    /\ popup.open
    /\ msg.pc \in {"none", "responded"}
    /\ msg' = [NoMessage EXCEPT !.type = "TEST_PLATFORM_CONNECTION", !.pc = "received"]
    /\ UNCHANGED <<popupVars, evalVars, valVars, isActive, serviceVars, fnVars, utilVars, adapterVars, retryVars, mlVars>>

\* addPlatform has the answer: a platform is pushed and stored only when the
\* connection test succeeded
PopupAddPlatformDone ==
    /\ popup.open
    /\ msg.pc = "responded" /\ msg.type = "TEST_PLATFORM_CONNECTION"
    /\ msg' = NoMessage
    /\ IF ~msg.success
          THEN UNCHANGED <<popup, tradingConfig>>
          ELSE \E p \in PlatformNames :
                  /\ popup' = [popup EXCEPT !.config.hasPlatforms = TRUE,
                                            !.config.platforms = @ \cup {p}]
                  /\ tradingConfig' = popup'.config
    /\ UNCHANGED <<configManager, callVars, isActive, serviceVars, valVars, fnVars, utilVars, adapterVars, retryVars, mlVars>>

\* TradingPopup.removePlatform(index)
PopupRemovePlatform ==
    /\ popup.open
    /\ \E p \in popup.config.platforms :
          popup' = [popup EXCEPT !.config.platforms = @ \ {p}]
    /\ tradingConfig' = popup'.config
    /\ UNCHANGED <<configManager, callVars, valVars, workerVars, fnVars, utilVars, adapterVars, retryVars, mlVars>>

\* TradingPopup.togglePaperTrading: this.config goes to storage (the restart
\* it asks for is PopupStopTrading, then PopupStartTrading)
PopupTogglePaperTrading ==
    /\ popup.open
    /\ tradingConfig' = popup.config
    /\ UNCHANGED <<popupVars, callVars, valVars, workerVars, fnVars, utilVars, adapterVars, retryVars, mlVars>>

\* TradingPopup.startTrading sends START_TRADING with this.config
PopupStartTrading ==
    /\ popup.open
    /\ PopupSend("START_TRADING", popup.config)
    /\ UNCHANGED <<popupVars, evalVars, valVars, isActive, serviceVars, fnVars, utilVars, adapterVars, retryVars, mlVars>>

\* TradingPopup.stopTrading sends STOP_TRADING
PopupStopTrading ==
    /\ popup.open
    /\ msg.pc \in {"none", "responded"}
    /\ msg' = [NoMessage EXCEPT !.type = "STOP_TRADING", !.pc = "received"]
    /\ UNCHANGED <<popupVars, evalVars, valVars, isActive, serviceVars, fnVars, utilVars, adapterVars, retryVars, mlVars>>

\* the updateConfig call of startTrading, or the one of the UPDATE_CONFIG case
\* of handleMessage, returns or throws
ConfigUpdate ==
    /\ \/ msg.pc = "updateConfig"
       \/ msg.pc = "received" /\ msg.type = "UPDATE_CONFIG"
    /\ \E saved \in BOOLEAN :
          LET outcome == updateConfig(loadedConfig, msg.config.risk, saved)
          IN  /\ tradingConfig' = outcome.stored
              /\ configManager' = outcome.manager
              /\ Respond(outcome.done, IF outcome.done THEN "" ELSE outcome.error)
    /\ UNCHANGED <<popup, callVars, isActive, serviceVars, valVars, fnVars, utilVars, adapterVars, retryVars, mlVars>>

\* performRiskAssessment finds a HIGH risk with REDUCE_POSITION_SIZE:
\* mitigateRisk halves maxPositionSize in the object getConfig returned (this.config
\* itself once loaded) and calls updateConfig with it.  Halving stops at an
\* odd percentage.
MitigateRisk ==
    /\ isActive
    /\ LET config == IF configManager.isLoaded
                        THEN configManager.config ELSE DefaultConfig({})
       IN  /\ config.hasRisk
           /\ config.maxPositionSize % 2 = 0
           /\ config.maxPositionSize > 0
           /\ \E saved \in BOOLEAN :
                 LET halved == [config EXCEPT !.maxPositionSize = @ \div 2]
                     outcome == updateConfig(IF configManager.isLoaded
                                                THEN halved ELSE loadedConfig,
                                             halved, saved)
                 IN  /\ tradingConfig' = outcome.stored
                     /\ configManager' = outcome.manager
    /\ UNCHANGED <<popup, callVars, valVars, workerVars, fnVars, utilVars, adapterVars, retryVars, mlVars>>

InitPopup ==
    /\ tradingConfig \in {NoConfig, DefaultConfig({"binance"})}
    /\ EvalIdle
    /\ ValidateIdle
    /\ WorkerNew
    /\ FnIdle
    /\ UtilIdle
    /\ AdapterIdle
    /\ PopupIdle
    /\ RetryIdle
    /\ MlNew

NextPopup ==
    \/ PopupOpen
    \/ PopupClose
    \/ PopupSaveConfig
    \/ PopupResetConfig
    \/ PopupAddPlatform
    \/ PopupAddPlatformDone
    \/ PopupRemovePlatform
    \/ PopupTogglePaperTrading
    \/ PopupStartTrading
    \/ PopupStopTrading
    \/ MsgStartTrading
    \/ MsgStartActivate
    \/ ConfigUpdate
    \/ MsgStopTrading
    \/ MsgStopConfig
    \/ MsgUnknown
    \/ MitigateRisk

SpecPopup == InitPopup /\ [][NextPopup]_vars

\* the four bounded parameters of riskSettings are present and in range
InBounds(config) ==
    /\ config.hasRisk
    /\ config.missing \cap ParamNames = {}
    /\ config.maxPositionSize > 0 /\ config.maxPositionSize <= 10
    /\ config.maxDailyLoss > 0 /\ config.maxDailyLoss <= 5
    /\ config.maxTotalExposure > 0 /\ config.maxTotalExposure <= 100
    /\ config.stopLossPercentage > 0 /\ config.stopLossPercentage <= 10

\* C25: in every reachable state in which trading is active, the
\* 'tradingConfig' in storage that the risk evaluator reads has all four
\* bounded parameters in range, under any sequence of popup actions, of
\* START_TRADING and UPDATE_CONFIG messages and of risk mitigation.
C25_ActiveConfigInBounds ==
    isActive => InBounds(tradingConfig)

-----------------------------------------------------------------------------
(* Claims about the gates of one evaluation, checked under Spec.           *)

\* C26: no approved assessment carries a recommendedSize computed while the
\* market-condition level was EXTREME: the level that selects the sizing
\* multiplier is the level that passed the market-conditions gate of that
\* evaluation, even when market conditions change during the evaluation.
C26_SizedAtTheGateLevel ==
    (pc = "done" /\ riskAssessment.approved) =>
        /\ obs.sizeLevel # "EXTREME"
        /\ obs.sizeLevel = obs.marketLevel

\* C27: the risk gates fail closed: when the market-condition assessment, the
\* exposure check, the position sizing or the correlation check raised an
\* exception, evaluateOpportunity does not approve the trade.
C27_GatesFailClosed ==
    (pc = "done" /\ obs.failed \cap {"market", "exposure", "size", "correlation"} # {}) =>
        ~riskAssessment.approved

-----------------------------------------------------------------------------
(* Claims about the messages the service worker handles, checked under     *)
(* SpecWorker.                                                             *)

\* this step answers the START_TRADING message being handled
AnswersStart ==
    /\ msg.type = "START_TRADING"
    /\ msg.pc \notin {"none", "responded"}
    /\ msg'.pc = "responded"

\* C28: a failed start never leaves trading active: when the handling of a
\* START_TRADING message received while trading was inactive ends with
\* success: false, isActive is false afterwards; a START_TRADING received
\* while trading is active is answered with 'Trading is already active' and
\* changes neither isActive nor the stored configuration.
C28_FailedStartStaysInactive ==
    [][/\ (AnswersStart /\ ~msg'.success /\ msg'.error # "Trading is already active")
             => ~isActive'
       /\ (AnswersStart /\ msg.pc = "received" /\ isActive)
             => /\ ~msg'.success
                /\ msg'.error = "Trading is already active"
                /\ UNCHANGED <<isActive, managerConfig, tradingConfig>>]_vars

-----------------------------------------------------------------------------
(* Claims about handleMessage, checked under SpecFunctions.                *)

\* handleMessage has finished with a message
HandledMessage == fn = "handleMessage" /\ ret.done

\* C29: every message type the popup sends has a handler in the service
\* worker and is never answered with 'Unknown message type'.
C29_ProtocolComplete ==
    (HandledMessage /\ args.message.type \in PopupMessageTypes) =>
        \A i \in 1..Len(ret.value.responses) :
            ret.value.responses[i].error # "Unknown message type"

\* C30: for every message the service worker receives, of a known or an
\* unknown type, whether the handler succeeds or throws, sendResponse is called
\* exactly once, and with success: true only if the requested operation
\* completed without error.
C30_OneTruthfulResponse ==
    HandledMessage =>
        /\ Len(ret.value.responses) = 1
        /\ ret.value.responses[1].success => ret.value.failures = {}

-----------------------------------------------------------------------------
(* Claims about the trading engine and the tracked positions, checked      *)
(* under SpecFunctions.                                                    *)

\* a TradingEngine.executeTrade call has returned
EngineDone == fn = "TradingEngine.executeTrade" /\ ret.done

\* C32: TradingEngine.executeTrade returns exactly one result per target
\* platform, in target order; a failure on one platform (no connection, or a
\* rejected order) neither aborts the call nor keeps the order from being
\* submitted on the remaining platforms, and the call does not throw.
C32_OneResultPerTarget ==
    EngineDone =>
        /\ ~ret.value.threw
        /\ Len(ret.value.results) = Len(args.targetPlatforms)
        /\ \A i \in 1..Len(args.targetPlatforms) :
              /\ ret.value.results[i].platform = args.targetPlatforms[i]
              /\ ret.value.results[i].success <=>
                    /\ args.targetPlatforms[i] \in args.connected
                    /\ args.targetPlatforms[i] \notin args.rejecting
        /\ ret.value.submitted =
              SelectSeq(args.targetPlatforms, LAMBDA p : p \in args.connected)

\* C32 witness: the first target has no connection and the order is accepted
\* on the second
C32_Witness ==
    /\ EngineDone
    /\ Len(args.targetPlatforms) = 2
    /\ args.targetPlatforms[1] \notin args.connected
    /\ ~ret.value.results[1].success
    /\ ret.value.results[2].success
    /\ ret.value.submitted = <<args.targetPlatforms[2]>>

\* an operation of the service worker on activePositions is over
ServiceDone == fn = "AITradingService" /\ ret.done

\* the orders the platforms accepted in the operation are tracked as OPEN
AcceptedAreTracked ==
    \A i \in 1..Len(ret.value.results) :
        ret.value.results[i].success =>
            \E p \in ret.value.activePositions :
                /\ p.orderId = ret.value.results[i].orderId
                /\ p.platform = ret.value.results[i].platform
                /\ p.status = "OPEN"

\* C31: every order a platform accepted through the service worker, from
\* automated analysis or from EXECUTE_MANUAL_TRADE, is recorded in
\* activePositions with status OPEN until it is closed (the positions tracked
\* before stay); closeAllPositions removes exactly the positions whose
\* closing order succeeded and keeps those whose closing failed.
C31_AcceptedOrdersAreTracked ==
    ServiceDone =>
        /\ args.operation \in {"executeTrade", "executeManualTrade"} =>
              /\ AcceptedAreTracked
              /\ args.positions \subseteq ret.value.activePositions
        /\ args.operation = "closeAllPositions" =>
              ret.value.activePositions =
                 {p \in args.positions :
                     p.platform \notin args.connected \/ p.platform \in args.rejecting}

(***************************************************************************)
(* BaseAdapter.retry(operation, maxAttempts, delay): the loop of one call. *)
(* retry.attempt is the loop variable, retry.invoked counts the calls of   *)
(* operation, retry.errors lists what the failed calls threw and           *)
(* retry.waits the timeouts that were set, in milliseconds.                *)
(***************************************************************************)

\* the largest maxAttempts a caller passes
MaxAttempts == 3

\* the delays a caller passes, in milliseconds (1000 is the default)
Delays == {0, 500, 1000}

\* what a failing operation throws
RetryErrors == {"timeout", "rejected"}

\* a faulty variant: the same wait after every failed attempt
backoffConstant(delay, attempt) == delay

\* delay * Math.pow(2, attempt - 1)
backoff(delay, attempt) == delay * 2 ^ (attempt - 1)

\* retry is called: attempt = 1 and the first operation() is awaited
RetryCall ==
    /\ retry.pc = "idle"
    /\ \E maxAttempts \in 1..MaxAttempts, delay \in Delays :
          retry' = [retry EXCEPT !.pc = "invoking", !.maxAttempts = maxAttempts,
                                 !.delay = delay, !.attempt = 1]
    /\ UNCHANGED <<evalVars, valVars, workerVars, fnVars, utilVars, adapterVars, popupVars, mlVars>>

\* the awaited operation() resolves: retry returns its result at once
OperationReturns ==
    /\ retry.pc = "invoking"
    /\ retry' = [retry EXCEPT !.pc = "returned", !.invoked = @ + 1, !.result = "ok"]
    /\ UNCHANGED <<evalVars, valVars, workerVars, fnVars, utilVars, adapterVars, popupVars, mlVars>>

\* the awaited operation() rejects: lastError is set; the loop breaks on the
\* last attempt and retry throws lastError, otherwise the backoff timeout is set
OperationThrows ==
    /\ retry.pc = "invoking"
    /\ \E error \in RetryErrors :
          IF retry.attempt = retry.maxAttempts
          THEN retry' = [retry EXCEPT !.pc = "threw", !.invoked = @ + 1,
                                      !.errors = Append(@, error),
                                      !.lastError = error, !.thrown = error]
          ELSE retry' = [retry EXCEPT !.pc = "waiting", !.invoked = @ + 1,
                                      !.errors = Append(@, error),
                                      !.lastError = error,
                                      !.waits = Append(@, backoff(retry.delay, retry.attempt))]
    /\ UNCHANGED <<evalVars, valVars, workerVars, fnVars, utilVars, adapterVars, popupVars, mlVars>>

\* the timeout fires: attempt++ and the next operation() is awaited
RetryTimeout ==
    /\ retry.pc = "waiting"
    /\ retry' = [retry EXCEPT !.pc = "invoking", !.attempt = @ + 1]
    /\ UNCHANGED <<evalVars, valVars, workerVars, fnVars, utilVars, adapterVars, popupVars, mlVars>>

InitRetry ==
    /\ tradingConfig = NoConfig
    /\ EvalIdle
    /\ ValidateIdle
    /\ WorkerNew
    /\ FnIdle
    /\ UtilIdle
    /\ AdapterIdle
    /\ PopupIdle
    /\ RetryIdle
    /\ MlNew

NextRetry ==
    \/ RetryCall
    \/ OperationReturns
    \/ OperationThrows
    \/ RetryTimeout

SpecRetry == InitRetry /\ [][NextRetry]_vars

\* the retry call is over
RetryOver == retry.pc \in {"returned", "threw"}

\* C33: with maxAttempts >= 1, retry invokes the operation one call at a
\* time, at least once and at most maxAttempts times; it returns the first
\* successful result with no invocation after it; it throws exactly when all
\* maxAttempts invocations failed, and then the error of the last one; the
\* wait between failed attempt k and attempt k+1 is delay*2^(k-1), and there
\* is no wait after the final attempt.
C33_RetryContract ==
    /\ retry.invoked <= retry.maxAttempts
    /\ RetryOver => retry.invoked >= 1
    /\ retry.pc = "returned" =>
          /\ retry.result = "ok"
          /\ retry.invoked = Len(retry.errors) + 1
    /\ RetryOver =>
          (retry.pc = "threw" <=> Len(retry.errors) = retry.maxAttempts)
    /\ retry.pc = "threw" =>
          /\ retry.invoked = retry.maxAttempts
          /\ retry.thrown = retry.errors[Len(retry.errors)]
    /\ \A k \in 1..Len(retry.waits) : retry.waits[k] = retry.delay * 2 ^ (k - 1)
    /\ RetryOver => Len(retry.waits) = retry.invoked - 1
    /\ retry.pc = "waiting" => Len(retry.waits) = retry.invoked
    /\ retry.pc = "invoking" =>
          /\ retry.invoked = retry.attempt - 1
          /\ Len(retry.waits) = retry.invoked

\* C33 witness: three attempts fail with different errors one second apart,
\* then two; the error of the third is thrown
C33_Witness ==
    /\ retry.pc = "threw"
    /\ retry.maxAttempts = 3
    /\ retry.invoked = 3
    /\ retry.waits = <<1000, 2000>>
    /\ retry.errors[1] # retry.errors[3]
    /\ retry.thrown = retry.errors[3]

(***************************************************************************)
(* MachineLearning: loadModels and predict.  Probabilities are in percent, *)
(* confidences in ten-thousandths (9500 is 0.95).  The four sub-models     *)
(* read the features and Math.random; their outputs are drawn from the     *)
(* ranges their code produces, and any of them may reject.                 *)
(***************************************************************************)

\* Math.min(0.95, Math.max(0.1, confidence)) of predictPriceDirection
clampConfidence(confidence) ==
    IF confidence < 1000 THEN 1000
    ELSE IF confidence > 9500 THEN 9500 ELSE confidence

\* predictPriceDirection from the sigmoid's probability and the random
\* factor 0.8 + Math.random()*0.4 (in percent)
predictPriceDirection(probability, factor) ==
    LET distance == IF probability >= 50 THEN probability - 50 ELSE 50 - probability
    IN  [direction |-> IF probability > 60 THEN "UP"
                       ELSE IF probability < 40 THEN "DOWN" ELSE "NEUTRAL",
         probability |-> probability,
         confidence |-> clampConfidence(distance * 2 * factor)]

\* recognizePatterns: no pattern (confidence 0.1), or count patterns whose
\* confidences average to confidence
PatternOutputs ==
    {[patterns |-> 0, confidence |-> 1000],
     [patterns |-> 2, confidence |-> 9000]}

\* the levels predictVolatility and assessRisk classify into
Levels == {"LOW", "MEDIUM", "HIGH"}

\* a faulty variant: the combined confidence is not clamped
combinePredictionsUnclamped(priceDirection, volatility, patterns, risk) ==
    LET byRisk == IF risk = "HIGH" THEN (priceDirection.confidence * 7) \div 10
                  ELSE IF risk = "LOW" THEN (priceDirection.confidence * 11) \div 10
                  ELSE priceDirection.confidence
        boosted == byRisk + (patterns.confidence * 2) \div 10
        adjustedConfidence ==
            IF patterns.patterns > 0
            THEN (IF boosted > 9500 THEN 9500 ELSE boosted)
            ELSE byRisk
    IN  [priceDirection |-> priceDirection.direction,
         probability |-> priceDirection.probability,
         confidence |-> adjustedConfidence,
         volatility |-> volatility,
         riskLevel |-> risk,
         patterns |-> patterns.patterns,
         timeHorizon |-> IF volatility = "LOW" THEN "MEDIUM"
                         ELSE IF volatility = "HIGH" THEN "VERY_SHORT" ELSE "SHORT",
         metadata |-> "modelScores"]

\* combinePredictions: the confidence of the price direction, times 0.7 at
\* HIGH risk and 1.1 at LOW risk, plus a fifth of the pattern confidence
\* (capped at 0.95) when a pattern was found, clamped into [0.1, 0.95]
combinePredictions(priceDirection, volatility, patterns, risk) ==
    LET byRisk == IF risk = "HIGH" THEN (priceDirection.confidence * 7) \div 10
                  ELSE IF risk = "LOW" THEN (priceDirection.confidence * 11) \div 10
                  ELSE priceDirection.confidence
        boosted == byRisk + (patterns.confidence * 2) \div 10
        adjustedConfidence ==
            IF patterns.patterns > 0
            THEN (IF boosted > 9500 THEN 9500 ELSE boosted)
            ELSE byRisk
    IN  [priceDirection |-> priceDirection.direction,
         probability |-> priceDirection.probability,
         confidence |-> IF adjustedConfidence > 9500 THEN 9500
                        ELSE IF adjustedConfidence < 1000 THEN 1000
                        ELSE adjustedConfidence,
         volatility |-> volatility,
         riskLevel |-> risk,
         patterns |-> patterns.patterns,
         timeHorizon |-> IF volatility = "LOW" THEN "MEDIUM"
                         ELSE IF volatility = "HIGH" THEN "VERY_SHORT" ELSE "SHORT",
         metadata |-> "modelScores"]

getFallbackPrediction ==
    [priceDirection |-> "NEUTRAL",
     probability |-> 50,
     confidence |-> 1000,
     volatility |-> "MEDIUM",
     riskLevel |-> "MEDIUM",
     patterns |-> 0,
     timeHorizon |-> "SHORT",
     metadata |-> "ML prediction failed, using fallback"]

\* the predict calls of one behaviour
MaxPredicts == 2

\* what the sub-models make of the features of one predict call: four
\* outputs, or one of them rejects (what the others return is then dropped)
SubModelOutputs ==
    [probability : {30, 50, 100},
     factor : {80, 120},
     volatility : {"LOW", "HIGH"},
     patterns : PatternOutputs,
     risk : Levels,
     rejecting : {"none"}]
    \cup
    [probability : {50},
     factor : {100},
     volatility : {"MEDIUM"},
     patterns : {[patterns |-> 0, confidence |-> 1000]},
     risk : {"MEDIUM"},
     rejecting : {"priceDirection", "volatility", "patterns", "risk"}]

\* loadModels is called: the four models are being set
LoadModelsStart ==
    /\ ~ml.loading
    /\ ~ml.isInitialized
    /\ ml' = [ml EXCEPT !.loading = TRUE]
    /\ UNCHANGED <<evalVars, valVars, workerVars, fnVars, utilVars, adapterVars, popupVars, retryVars>>

\* the last model is set: isInitialized = true
LoadModelsDone ==
    /\ ml.loading
    /\ ml' = [ml EXCEPT !.loading = FALSE, !.isInitialized = TRUE]
    /\ UNCHANGED <<evalVars, valVars, workerVars, fnVars, utilVars, adapterVars, popupVars, retryVars>>

\* predict(features, symbol)
Predict ==
    /\ ml.calls < MaxPredicts
    /\ \E s \in Symbols, out \in SubModelOutputs :
          LET before == ml.predictions
              combined ==
                  combinePredictions(predictPriceDirection(out.probability, out.factor),
                                     out.volatility, out.patterns, out.risk)
          IN  IF ~ml.isInitialized
              THEN ml' = [ml EXCEPT !.calls = @ + 1, !.call =
                             [made |-> TRUE, symbol |-> s, initialized |-> ml.isInitialized,
                              threw |-> TRUE,
                              error |-> "ML models not initialized",
                              failed |-> FALSE, before |-> before, returned |-> {}]]
              ELSE IF out.rejecting # "none"
              THEN ml' = [ml EXCEPT !.calls = @ + 1, !.call =
                             [made |-> TRUE, symbol |-> s, initialized |-> ml.isInitialized,
                              threw |-> FALSE,
                              error |-> "", failed |-> TRUE, before |-> before,
                              returned |-> {getFallbackPrediction}]]
              ELSE ml' = [ml EXCEPT !.calls = @ + 1, !.predictions[s] = {combined},
                                    !.call =
                             [made |-> TRUE, symbol |-> s, initialized |-> ml.isInitialized,
                              threw |-> FALSE,
                              error |-> "", failed |-> FALSE, before |-> before,
                              returned |-> {combined}]]
    /\ UNCHANGED <<evalVars, valVars, workerVars, fnVars, utilVars, adapterVars, popupVars, retryVars>>

InitML ==
    /\ tradingConfig = NoConfig
    /\ EvalIdle
    /\ ValidateIdle
    /\ WorkerNew
    /\ FnIdle
    /\ UtilIdle
    /\ AdapterIdle
    /\ PopupIdle
    /\ RetryIdle
    /\ MlNew

NextML ==
    \/ LoadModelsStart
    \/ LoadModelsDone
    \/ Predict

SpecML == InitML /\ [][NextML]_vars

\* C34: predict throws 'ML models not initialized' and caches nothing when
\* called before loadModels has completed; after that it never throws: it
\* returns a prediction whose confidence lies in [0.1, 0.95] and caches it
\* under the symbol, or, when a sub-model failed, returns the fallback
\* prediction (NEUTRAL, confidence 0.1) and leaves the cache as it was.
C34_PredictContract ==
    ml.call.made =>
        /\ ml.call.threw <=> ~ml.call.initialized
        /\ ml.call.threw =>
              /\ ml.call.error = "ML models not initialized"
              /\ ml.call.returned = {}
              /\ ml.predictions = ml.call.before
        /\ ~ml.call.threw =>
              /\ Cardinality(ml.call.returned) = 1
              /\ \A prediction \in ml.call.returned :
                    IF ml.call.failed
                    THEN /\ prediction = getFallbackPrediction
                         /\ prediction.priceDirection = "NEUTRAL"
                         /\ prediction.confidence = 1000
                         /\ ml.predictions = ml.call.before
                    ELSE /\ prediction.confidence >= 1000
                         /\ prediction.confidence <= 9500
                         /\ ml.predictions =
                               [ml.call.before EXCEPT ![ml.call.symbol] = {prediction}]

\* C34 witness: with a prediction of 0.95 cached for BTC, a later call for
\* BTC in which a sub-model failed returned the fallback and the cache kept
\* the entry
C34_Witness ==
    /\ ml.call.made
    /\ ml.call.failed
    /\ ml.call.symbol = "BTC"
    /\ ml.call.returned = {getFallbackPrediction}
    /\ \E prediction \in ml.predictions["BTC"] :
          /\ prediction.confidence = 9500
          /\ prediction.riskLevel = "LOW"
    /\ ml.predictions["DOGE"] = {}

====
